---- MODULE Spec2Model ----
(***************************************************************************)
(* Model of agentic_lab.agents.trader.scoring.ScoreProvider: the four      *)
(* scores, the composite and the trading signal.                           *)
(*                                                                         *)
(* Numbers are Python/numpy floats in the source.  They are modelled as    *)
(* exact rationals n/d plus the IEEE specials nan, +inf and -inf, with the *)
(* comparison and min/max behaviour Python gives them; None is the value   *)
(* row.get returns for an absent column.  Rounding of binary floating      *)
(* point is not modelled.                                                  *)
(***************************************************************************)
EXTENDS Integers, Sequences, FiniteSets, TLC

\* ScoreProvider: the configured tolerance, the method called, its inputs and
\* what it returned
VARIABLES risk_tolerance, fn, df, search_results, llm, args, ret

\* TickerResearchAgent and its SearchProvider: the initialized flag, whether a
\* search backend was imported, the configuration, the position inside
\* execute, the queries still to run, the items the backend has yielded, the
\* result list and URL set of the running search, and what execute returned
VARIABLES initialized, backend, cfg, pc, pending, arrived, raw_results, seen_urls, result

\* stock_analysis.analyzer: the indicator function called with its arguments,
\* and its outcome
VARIABLES call, out

\* TradingAgent: the configured symbol list, the initialized flag, the
\* positions dictionary, and the call in progress with its outcome
VARIABLES symbols, trading_initialized, positions, trade

\* TickerResearchConfig under its ProfileManager: what the user passed to the
\* constructor, the configuration object as it stands, how often a profile
\* has been written into it, and the agent call in progress with its outcome
VARIABLES user, config, applications, research

\* one set of sub-scores scored and signalled under each risk tolerance
VARIABLES subscores, signals

\* a function called on some input, and the call made before it
VARIABLES probe, earlier

agent_vars == <<initialized, backend, cfg, pc, pending, arrived, raw_results, seen_urls, result>>
indicator_vars == <<call, out>>
trading_vars == <<symbols, trading_initialized, positions, trade>>
profile_vars == <<user, config, applications, research>>
pipeline_vars == <<subscores, signals>>
repeat_vars == <<probe, earlier>>
rest_vars == <<trading_vars, profile_vars, pipeline_vars, repeat_vars>>

vars == <<risk_tolerance, fn, df, search_results, llm, args, ret,
          initialized, backend, cfg, pc, pending, arrived, raw_results, seen_urls, result,
          call, out,
          symbols, trading_initialized, positions, trade,
          user, config, applications, research,
          subscores, signals, probe, earlier>>

(***************************************************************************)
(* Float values                                                            *)
(***************************************************************************)
RECURSIVE GCD(_, _)
GCD(a, b) == IF b = 0 THEN a ELSE GCD(b, a % b)

AbsInt(x) == IF x < 0 THEN -x ELSE x

\* the rational n/d (d # 0) in lowest terms with a positive denominator
R(n, d) ==
    LET g == GCD(AbsInt(n), AbsInt(d))
        s == IF d < 0 THEN -1 ELSE 1
    IN  [k |-> "num", n |-> (s * n) \div g, d |-> (s * d) \div g]

NaN == [k |-> "nan", n |-> 0, d |-> 1]
PInf == [k |-> "pinf", n |-> 0, d |-> 1]
NInf == [k |-> "ninf", n |-> 0, d |-> 1]
None == [k |-> "none", n |-> 0, d |-> 1]
Unset == [k |-> "unset", n |-> 0, d |-> 1]

IsNum(a) == a.k = "num"
IsInf(a) == a.k \in {"pinf", "ninf"}
IsFloat(a) == a.k \in {"num", "nan", "pinf", "ninf"}

\* -1, 0 or 1; nan has no sign
Sign(a) ==
    CASE a.k = "pinf" -> 1
      [] a.k = "ninf" -> -1
      [] a.k = "num" -> (IF a.n > 0 THEN 1 ELSE IF a.n < 0 THEN -1 ELSE 0)

InfOf(s) == IF s > 0 THEN PInf ELSE NInf

Neg(a) ==
    CASE a.k = "nan" -> NaN
      [] a.k = "pinf" -> NInf
      [] a.k = "ninf" -> PInf
      [] a.k = "num" -> R(-a.n, a.d)

Add(a, b) ==
    CASE a.k = "nan" \/ b.k = "nan" -> NaN
      [] IsInf(a) /\ IsInf(b) -> (IF a.k = b.k THEN a ELSE NaN)
      [] IsInf(a) /\ IsNum(b) -> a
      [] IsNum(a) /\ IsInf(b) -> b
      [] IsNum(a) /\ IsNum(b) ->
            LET g == GCD(a.d, b.d)
            IN  R(a.n * (b.d \div g) + b.n * (a.d \div g), (a.d \div g) * b.d)

Sub(a, b) == Add(a, Neg(b))

Mul(a, b) ==
    CASE a.k = "nan" \/ b.k = "nan" -> NaN
      [] IsInf(a) \/ IsInf(b) ->
            (IF Sign(a) * Sign(b) = 0 THEN NaN ELSE InfOf(Sign(a) * Sign(b)))
      [] IsNum(a) /\ IsNum(b) ->
            LET g1 == GCD(AbsInt(a.n), b.d)
                g2 == GCD(AbsInt(b.n), a.d)
            IN  R((a.n \div g1) * (b.n \div g2), (a.d \div g2) * (b.d \div g1))

\* numpy float64 division: x/0 is +-inf (nan for 0/0) with a warning, no exception
Div(a, b) ==
    CASE a.k = "nan" \/ b.k = "nan" -> NaN
      [] IsInf(a) /\ IsInf(b) -> NaN
      [] IsInf(a) /\ IsNum(b) -> (IF Sign(b) < 0 THEN Neg(a) ELSE a)
      [] IsNum(a) /\ IsInf(b) -> R(0, 1)
      [] IsNum(a) /\ IsNum(b) ->
            IF b.n = 0
            THEN (IF a.n = 0 THEN NaN ELSE InfOf(Sign(a)))
            ELSE Mul(a, R(b.d, b.n))

\* a < b; every comparison with nan is False
Lt(a, b) ==
    CASE a.k = "nan" \/ b.k = "nan" -> FALSE
      [] a.k = "pinf" -> FALSE
      [] a.k = "ninf" -> b.k # "ninf"
      [] b.k = "pinf" -> TRUE
      [] b.k = "ninf" -> FALSE
      [] OTHER -> a.n * b.d < b.n * a.d

Gt(a, b) == Lt(b, a)

Eq(a, b) == a.k # "nan" /\ b.k # "nan" /\ a = b

Le(a, b) == Lt(a, b) \/ Eq(a, b)

Ge(a, b) == Le(b, a)

\* Python's min(a, b): the second argument wins only if it compares smaller
PyMin(a, b) == IF Lt(b, a) THEN b ELSE a

\* Python's max(a, b): the second argument wins only if it compares greater
PyMax(a, b) == IF Gt(b, a) THEN b ELSE a

PyAbs(a) ==
    CASE a.k = "nan" -> NaN
      [] IsInf(a) -> PInf
      [] a.k = "num" -> R(AbsInt(a.n), a.d)

\* a decimal literal with two digits after the point, e.g. Dec(55) = 0.55
Dec(h) == R(h, 100)

Zero == R(0, 1)
One == R(1, 1)
Half == R(1, 2)

\* the clamp with the operands of max and min in the other order
Clamp01_swapped(x) == PyMin(PyMax(x, Zero), One)

\* max(0.0, min(1.0, x)) as the score functions write it
Clamp01(x) == PyMax(Zero, PyMin(One, x))

(***************************************************************************)
(* ScoreProvider.technical_score                                           *)
(***************************************************************************)
NoDf == [none |-> TRUE, closes |-> <<>>, RSI |-> None, SMA_20 |-> None,
         MACD |-> None, MACD_Signal |-> None]

\* df.iloc[-1].get("Close")
LastClose(d) == d.closes[Len(d.closes)]

\* the RSI ranges with the bound 25 left out of the lowest one
_rsi_score_normalized_strict(rsi) ==
    IF Lt(rsi, R(25, 1)) THEN Dec(90)
    ELSE IF Le(rsi, R(30, 1)) THEN Dec(75)
    ELSE IF Ge(rsi, R(75, 1)) THEN Dec(15)
    ELSE IF Ge(rsi, R(70, 1)) THEN Dec(25)
    ELSE Sub(Dec(75), Div(Mul(Sub(rsi, R(30, 1)), Half), R(40, 1)))

_rsi_score_normalized(rsi) ==
    IF Le(rsi, R(25, 1)) THEN Dec(90)
    ELSE IF Le(rsi, R(30, 1)) THEN Dec(75)
    ELSE IF Ge(rsi, R(75, 1)) THEN Dec(15)
    ELSE IF Ge(rsi, R(70, 1)) THEN Dec(25)
    ELSE Sub(Dec(75), Div(Mul(Sub(rsi, R(30, 1)), Half), R(40, 1)))

price_sma_score(price, sma_20) ==
    Div(Sub(PyMin(PyMax(Div(price, sma_20), Dec(70)), Dec(130)), Dec(70)), Dec(60))

macd_score(macd, macd_signal) == IF Gt(macd, macd_signal) THEN One ELSE Dec(30)

\* the (name, score) pairs appended to score_components, in order
score_components(row) ==
    (IF row.RSI # None THEN <<[name |-> "RSI", score |-> _rsi_score_normalized(row.RSI)]>>
     ELSE <<>>)
    \o (IF row.Close # None /\ row.SMA_20 # None
        THEN <<[name |-> "Price_vs_SMA", score |-> price_sma_score(row.Close, row.SMA_20)]>>
        ELSE <<>>)
    \o (IF row.MACD # None /\ row.MACD_Signal # None
        THEN <<[name |-> "MACD", score |-> macd_score(row.MACD, row.MACD_Signal)]>>
        ELSE <<>>)

weights(name) ==
    CASE name = "RSI" -> Dec(40)
      [] name = "Price_vs_SMA" -> Dec(40)
      [] name = "MACD" -> Dec(20)

RECURSIVE SumWeights(_)
SumWeights(cs) ==
    IF cs = <<>> THEN Zero ELSE Add(weights(Head(cs).name), SumWeights(Tail(cs)))

RECURSIVE SumWeighted(_)
SumWeighted(cs) ==
    IF cs = <<>> THEN Zero
    ELSE Add(Mul(weights(Head(cs).name), Head(cs).score), SumWeighted(Tail(cs)))

LastRow(d) ==
    [RSI |-> d.RSI, Close |-> LastClose(d), SMA_20 |-> d.SMA_20,
     MACD |-> d.MACD, MACD_Signal |-> d.MACD_Signal]

technical_score(d) ==
    IF d.none \/ Len(d.closes) = 0 THEN Half
    ELSE LET cs == score_components(LastRow(d))
         IN  IF cs = <<>> THEN Half
             ELSE LET total_weight == SumWeights(cs)
                      weighted_sum == SumWeighted(cs)
                      final_score == IF Gt(total_weight, Zero)
                                     THEN Div(weighted_sum, total_weight)
                                     ELSE Half
                  IN  Clamp01(final_score)

(***************************************************************************)
(* ScoreProvider.momentum_score                                            *)
(***************************************************************************)
PyMinInt(a, b) == IF b < a THEN b ELSE a

\* df.iloc[-min(5, len(df))].get("Close"): iloc[-k] is the k-th row from the end
older_price(d) == d.closes[Len(d.closes) - PyMinInt(5, Len(d.closes)) + 1]

\* 0.5 + pct_change * 3.33, clamped
momentum_of_change(pct_change) == Clamp01(Add(Half, Mul(pct_change, R(333, 100))))

momentum_score(d) ==
    IF d.none \/ Len(d.closes) < 2 THEN Half
    ELSE LET recent_price == LastClose(d)
             older == older_price(d)
         IN  IF recent_price = None \/ older = None THEN Half
             ELSE momentum_of_change(Div(Sub(recent_price, older), older))

(***************************************************************************)
(* ScoreProvider.sentiment_score and _gpt_sentiment_analysis               *)
(*                                                                         *)
(* llm is the external sentiment source: whether OPENAI_API_KEY is set,    *)
(* whether the openai package imports, and what the chat call does: reply  *)
(* "error" (the call or reading the response raises), "text" (a reply      *)
(* float() rejects) or the float that float(score_text) gives.             *)
(***************************************************************************)
ReplyError == [k |-> "error", n |-> 0, d |-> 1]
ReplyText == [k |-> "text", n |-> 0, d |-> 1]

Returned(v) == [raised |-> FALSE, value |-> v]
Raised == [raised |-> TRUE, value |-> Unset]

MaxTexts == 10

\* for result in search_results[:10]: if title or snippet: texts.append(...)
texts(results) ==
    SelectSeq(SubSeq(results, 1, PyMinInt(MaxTexts, Len(results))),
              LAMBDA r : r.title \/ r.snippet)

_gpt_sentiment_analysis(results, l) ==
    IF ~l.api_key THEN Raised
    ELSE IF ~l.package THEN Raised
    ELSE IF texts(results) = <<>> THEN Returned(Half)
    ELSE IF l.reply = ReplyError \/ l.reply = ReplyText THEN Raised
    ELSE Returned(Clamp01(Div(l.reply, R(100, 1))))

\* sentiment_score without its try/except around the analysis
sentiment_score_uncaught(results, l) ==
    IF results = <<>> THEN Returned(Half)
    ELSE _gpt_sentiment_analysis(results, l)

sentiment_score(results, l) ==
    IF results = <<>> THEN Returned(Half)
    ELSE LET r == _gpt_sentiment_analysis(results, l)
         IN  IF r.raised THEN Returned(Half) ELSE r

(***************************************************************************)
(* ScoreProvider.composite_score                                           *)
(***************************************************************************)
use_sentiment(sentiment) == Gt(PyAbs(Sub(sentiment, Half)), Dec(1))

\* the bearish regime entered on either weak score
bearish_either(technical, momentum) == Lt(technical, Half) \/ Lt(momentum, Dec(40))

bearish(technical, momentum) == Lt(technical, Half) /\ Lt(momentum, Dec(40))

composite_weights(technical, momentum, sentiment) ==
    IF use_sentiment(sentiment)
    THEN IF bearish(technical, momentum)
         THEN [technical |-> Dec(45), momentum |-> Dec(35), sentiment |-> Dec(20)]
         ELSE [technical |-> Dec(40), momentum |-> Dec(30), sentiment |-> Dec(30)]
    ELSE [technical |-> Dec(60), momentum |-> Dec(40), sentiment |-> Zero]

composite_score(technical, momentum, sentiment, risk_adjustment) ==
    LET w == composite_weights(technical, momentum, sentiment)
        composite ==
            IF use_sentiment(sentiment)
            THEN Add(Add(Mul(w.technical, technical), Mul(w.momentum, momentum)),
                     Mul(w.sentiment, sentiment))
            ELSE Add(Mul(w.technical, technical), Mul(w.momentum, momentum))
        adjusted == Mul(composite, risk_adjustment)
    IN  Clamp01(adjusted)

(***************************************************************************)
(* ScoreProvider.generate_trading_signal                                   *)
(***************************************************************************)
RiskTags == {"conservative", "moderate", "aggressive", "AGGRESSIVE", "balanced"}

\* str.lower() on the profile's risk_tolerance tag
Lower(tag) == IF tag = "AGGRESSIVE" THEN "aggressive" ELSE tag

\* the buy thresholds with moderate sharing the aggressive 0.50
buy_threshold_flat(risk) == IF risk = "conservative" THEN Dec(60) ELSE Dec(50)

\* the buy thresholds with the conservative 0.75 the source says was once there
buy_threshold_075(risk) ==
    IF risk = "conservative" THEN Dec(75)
    ELSE IF risk = "aggressive" THEN Dec(50)
    ELSE Dec(55)

buy_threshold(risk) ==
    IF risk = "conservative" THEN Dec(60)
    ELSE IF risk = "aggressive" THEN Dec(50)
    ELSE Dec(55)

\* the sell thresholds with the aggressive 0.45 the source says was once there
sell_threshold_045(risk) == IF risk = "conservative" THEN Dec(40) ELSE Dec(45)

sell_threshold(risk) ==
    IF risk = "conservative" THEN Dec(40)
    ELSE IF risk = "aggressive" THEN Dec(40)
    ELSE Dec(45)

\* a decision that never holds
signal_of_decisive(composite, risk) ==
    IF Ge(composite, Half) THEN "BUY" ELSE "SELL"

signal_of(composite, risk) ==
    IF Ge(composite, buy_threshold(risk)) THEN "BUY"
    ELSE IF Le(composite, sell_threshold(risk)) THEN "SELL"
    ELSE "HOLD"

\* agreement with the bounds 0.6 and 0.4 included
technical_agrees_inclusive(signal, technical) ==
    \/ signal = "BUY" /\ Ge(technical, Dec(60))
    \/ signal = "SELL" /\ Le(technical, Dec(40))
    \/ signal = "HOLD"

technical_agrees(signal, technical) ==
    \/ signal = "BUY" /\ Gt(technical, Dec(60))
    \/ signal = "SELL" /\ Lt(technical, Dec(40))
    \/ signal = "HOLD"

adjust_confidence(confidence, signal, technical) ==
    IF technical # None
    THEN IF technical_agrees(signal, technical)
         THEN PyMin(Mul(confidence, Dec(120)), One)
         ELSE Mul(confidence, Dec(80))
    ELSE confidence

generate_trading_signal(config_risk, composite, technical) ==
    LET risk == Lower(config_risk)
        confidence == Mul(PyAbs(Sub(composite, Half)), R(2, 1))
        signal == signal_of(composite, risk)
    IN  [signal |-> signal,
         confidence |-> adjust_confidence(confidence, signal, technical)]

(***************************************************************************)
(* ScoreProvider.calculate_all_scores                                      *)
(***************************************************************************)
\* the multiplier table answering its default for every tag
risk_multipliers_default(risk) == One

\* the table with the conservative and aggressive multipliers exchanged
risk_multipliers_swapped(risk) ==
    IF risk = "conservative" THEN Dec(115)
    ELSE IF risk = "aggressive" THEN Dec(85)
    ELSE One

\* the table answering 0.85 for a tag it does not hold
risk_multipliers_cautious(risk) ==
    IF risk = "moderate" THEN One
    ELSE IF risk = "aggressive" THEN Dec(115)
    ELSE Dec(85)

\* risk_multipliers.get(risk_tolerance.lower(), 1.0)
risk_multipliers(risk) ==
    IF risk = "conservative" THEN Dec(85)
    ELSE IF risk = "moderate" THEN One
    ELSE IF risk = "aggressive" THEN Dec(115)
    ELSE One

calculate_all_scores(d, results, l, config_risk) ==
    LET technical == technical_score(d)
        momentum == momentum_score(d)
        sentiment == sentiment_score(results, l).value
        risk_adjustment == risk_multipliers(Lower(config_risk))
    IN  [technical |-> technical,
         momentum |-> momentum,
         sentiment |-> sentiment,
         composite |-> composite_score(technical, momentum, sentiment, risk_adjustment)]

(***************************************************************************)
(* Inputs                                                                  *)
(***************************************************************************)
MaxLen == 6
MaxResults == 2

N(x) == R(x, 1)

\* closes of ordinary days, and the cells one row may hold instead
PlainCloses == {N(100), N(115)}
OddCloses == {None, NaN, Zero, N(85)}

SeqsUpTo(S, n) == UNION {[1..m -> S] : m \in 0..n}

\* price series over PlainCloses with at most one cell replaced
ClosesInputs ==
    LET plain == SeqsUpTo(PlainCloses, MaxLen)
    IN  plain \cup {[c EXCEPT ![i] = x] : c \in plain \ {<<>>}, i \in 1..MaxLen, x \in OddCloses}

Table(closes) == [NoDf EXCEPT !.none = FALSE, !.closes = closes]

MomentumDfs == {NoDf} \cup {Table(c) : c \in ClosesInputs}

RsiCells == {None, NaN, N(20), N(28), N(50), N(72), N(80)}
CloseCells == {None, NaN, Zero, N(60), N(110)}
SmaCells == {None, NaN, Zero, N(100)}
MacdCells == {None, NaN, N(-1), N(1)}
SignalCells == {None, NaN, Zero}

\* tables of one row, which is all technical_score reads
TechnicalDfs ==
    {NoDf, Table(<<>>)} \cup
    {[none |-> FALSE, closes |-> <<c>>, RSI |-> r, SMA_20 |-> s, MACD |-> m, MACD_Signal |-> g] :
        c \in CloseCells, r \in RsiCells, s \in SmaCells, m \in MacdCells, g \in SignalCells}

\* RSI values 0, 0.5, ..., 100
RsiInputs == {R(i, 2) : i \in 0..200}

ScoreGrid == {Dec(5 * i) : i \in 0..20} \cup {Dec(39), Dec(41), Dec(49), Dec(51), Dec(61)}
SentimentGrid == {Zero, Dec(30), Dec(48), Dec(49), R(495, 1000), Half, R(505, 1000),
                  Dec(51), Dec(52), Dec(80), One}
TechnicalGrid == {Zero, Dec(39), Dec(40), Dec(49), Half, Dec(60), Dec(61), One}
MomentumGrid == {Zero, Dec(30), Dec(39), Dec(40), Half, One}
Multipliers == {Dec(85), One, Dec(115)}

ResultsInputs == SeqsUpTo([title : BOOLEAN, snippet : BOOLEAN], MaxResults)

Replies == {ReplyError, ReplyText, NaN, N(-5), N(0), N(50), N(51), N(80), N(150)}
LlmInputs == [api_key : BOOLEAN, package : BOOLEAN, reply : Replies]
NoLlm == [api_key |-> FALSE, package |-> FALSE, reply |-> ReplyError]

\* the tables and sentiment sources calculate_all_scores is run on
AllScoresDfs ==
    {NoDf, Table(<<>>), Table(<<N(100)>>), Table(<<N(100), N(115)>>), Table(<<N(115), N(85)>>)}
    \cup {[none |-> FALSE, closes |-> <<N(100), c>>, RSI |-> r, SMA_20 |-> N(100),
           MACD |-> m, MACD_Signal |-> N(0)] :
            c \in {N(60), N(100), N(140)}, r \in {NaN, N(20), N(50), N(80)}, m \in {N(-1), N(1)}}
AllScoresLlms == {NoLlm} \cup {[api_key |-> TRUE, package |-> TRUE, reply |-> r] : r \in Replies}

(***************************************************************************)
(* The provider as a state machine: one call at a time on a configured     *)
(* provider; fn names the method that last returned.                       *)
(***************************************************************************)
NoArgs == [technical |-> Unset, momentum |-> Unset, sentiment |-> Unset,
           risk_adjustment |-> Unset, composite |-> Unset, rsi |-> Unset]
NoRet == [technical |-> Unset, momentum |-> Unset, sentiment |-> Unset,
          composite |-> Unset, rsi_score |-> Unset, signal |-> "", confidence |-> Unset,
          raised |-> FALSE]

\* a research agent nobody has initialized or run
DefaultCfg == [max_results |-> 8, enable_trading_signals |-> TRUE,
               include_financial_terms |-> TRUE]
NoResult == [returned |-> FALSE, error |-> "", results_count |-> 0,
             sentiment |-> Unset, composite |-> Unset, has_signal |-> FALSE,
             recommendation |-> "", confidence |-> Unset]

AgentIdle ==
    /\ initialized = FALSE
    /\ backend = TRUE
    /\ cfg = DefaultCfg
    /\ pc = "idle"
    /\ pending = 0
    /\ arrived = <<>>
    /\ raw_results = <<>>
    /\ seen_urls = {}
    /\ result = NoResult

\* no indicator function called
NoCall == [name |-> "", lists |-> <<>>, periods |-> <<>>,
           num_std_dev |-> [t |-> "int", v |-> 2]]
NoOut == [raised |-> "", value |-> <<>>]

IndicatorIdle ==
    /\ call = NoCall
    /\ out = NoOut

\* an empty dict
EmptyDict == [s \in {} |-> 0]

\* a TradingAgent no method of which is running
NoValue == [action |-> "", symbol |-> "", quantity |-> Unset, status |-> "",
            total_value |-> Unset, symbols_count |-> 0, positions |-> EmptyDict]
NoTrade == [op |-> "", action |-> "", symbol |-> "", quantity |-> Unset,
            raised |-> "", value |-> NoValue]

TradingIdle ==
    /\ symbols = <<>>
    /\ trading_initialized = FALSE
    /\ positions = EmptyDict
    /\ trade = NoTrade

\* an attribute the object does not have, a key the profile does not have
NoAttr == ""

\* TickerResearchConfig(name, ticker) with every other field left to its default
NoUser == [lookback_days |-> None, max_results_given |-> FALSE, max_results |-> N(8),
           trading_profile |-> NoAttr]

\* the dataclass fields the profile manager reads and writes, as __init__ and
\* __post_init__ leave them
constructed(u) ==
    [lookback_days |-> u.lookback_days, max_results |-> u.max_results,
     _profile_applied |-> FALSE, _risk_tolerance |-> NoAttr]

\* what the profile file holds for the profile the configuration names
NoProfile == [file |-> TRUE, yaml |-> TRUE, known |-> FALSE, lookback_days |-> Unset,
              max_results |-> Unset, risk_tolerance |-> NoAttr]
NoResearch == [op |-> "", raised |-> "", profile |-> NoProfile, result |-> NoResult]

ProfileIdle ==
    /\ user = NoUser
    /\ config = constructed(NoUser)
    /\ applications = 0
    /\ research = NoResearch

NoSubscores == [technical |-> Unset, momentum |-> Unset, sentiment |-> Unset]
NoSignal == [composite |-> Unset, signal |-> "", confidence |-> Unset]
NoSignals == [conservative |-> NoSignal, moderate |-> NoSignal, aggressive |-> NoSignal]

PipelineIdle ==
    /\ subscores = NoSubscores
    /\ signals = NoSignals

\* no function called
NoProbe == [fn |-> "", call |-> NoCall, args |-> NoArgs, df |-> NoDf,
            search_results |-> <<>>, llm |-> NoLlm, risk |-> "",
            out |-> NoOut, ret |-> NoRet, call_after |-> NoCall, risk_after |-> ""]

RepeatIdle ==
    /\ probe = NoProbe
    /\ earlier = NoProbe

RestIdle ==
    /\ TradingIdle
    /\ ProfileIdle
    /\ PipelineIdle
    /\ RepeatIdle

Idle ==
    /\ fn = "idle"
    /\ df = NoDf
    /\ search_results = <<>>
    /\ llm = NoLlm
    /\ args = NoArgs
    /\ ret = NoRet

Init ==
    /\ risk_tolerance \in RiskTags
    /\ Idle
    /\ AgentIdle
    /\ IndicatorIdle
    /\ RestIdle

TechnicalScore ==
    /\ fn = "idle"
    /\ \E d \in TechnicalDfs :
          /\ df' = d
          /\ ret' = [NoRet EXCEPT !.technical = technical_score(d)]
    /\ fn' = "technical_score"
    /\ UNCHANGED <<risk_tolerance, search_results, llm, args>>
    /\ UNCHANGED <<agent_vars, indicator_vars, rest_vars>>

RsiScoreNormalized ==
    /\ fn = "idle"
    /\ \E rsi \in RsiInputs :
          /\ args' = [NoArgs EXCEPT !.rsi = rsi]
          /\ ret' = [NoRet EXCEPT !.rsi_score = _rsi_score_normalized(rsi)]
    /\ fn' = "_rsi_score_normalized"
    /\ UNCHANGED <<risk_tolerance, df, search_results, llm>>
    /\ UNCHANGED <<agent_vars, indicator_vars, rest_vars>>

MomentumScore ==
    /\ fn = "idle"
    /\ \E d \in MomentumDfs :
          /\ df' = d
          /\ ret' = [NoRet EXCEPT !.momentum = momentum_score(d)]
    /\ fn' = "momentum_score"
    /\ UNCHANGED <<risk_tolerance, search_results, llm, args>>
    /\ UNCHANGED <<agent_vars, indicator_vars, rest_vars>>

SentimentScore ==
    /\ fn = "idle"
    /\ \E results \in ResultsInputs, l \in LlmInputs :
          /\ search_results' = results
          /\ llm' = l
          /\ ret' = [NoRet EXCEPT !.sentiment = sentiment_score(results, l).value,
                                  !.raised = sentiment_score(results, l).raised]
    /\ fn' = "sentiment_score"
    /\ UNCHANGED <<risk_tolerance, df, args>>
    /\ UNCHANGED <<agent_vars, indicator_vars, rest_vars>>

CompositeScore ==
    /\ fn = "idle"
    /\ \E t \in TechnicalGrid, m \in MomentumGrid, s \in SentimentGrid, ra \in Multipliers :
          /\ args' = [NoArgs EXCEPT !.technical = t, !.momentum = m, !.sentiment = s,
                                    !.risk_adjustment = ra]
          /\ ret' = [NoRet EXCEPT !.composite = composite_score(t, m, s, ra)]
    /\ fn' = "composite_score"
    /\ UNCHANGED <<risk_tolerance, df, search_results, llm>>
    /\ UNCHANGED <<agent_vars, indicator_vars, rest_vars>>

GenerateTradingSignal ==
    /\ fn = "idle"
    /\ \E c \in ScoreGrid, t \in TechnicalGrid \cup {None} :
          /\ args' = [NoArgs EXCEPT !.composite = c, !.technical = t]
          /\ LET r == generate_trading_signal(risk_tolerance, c, t)
             IN  ret' = [NoRet EXCEPT !.signal = r.signal, !.confidence = r.confidence]
    /\ fn' = "generate_trading_signal"
    /\ UNCHANGED <<risk_tolerance, df, search_results, llm>>
    /\ UNCHANGED <<agent_vars, indicator_vars, rest_vars>>

CalculateAllScores ==
    /\ fn = "idle"
    /\ \E d \in AllScoresDfs, results \in {<<>>, <<[title |-> TRUE, snippet |-> TRUE]>>},
          l \in AllScoresLlms :
          /\ df' = d
          /\ search_results' = results
          /\ llm' = l
          /\ LET r == calculate_all_scores(d, results, l, risk_tolerance)
             IN  ret' = [NoRet EXCEPT !.technical = r.technical, !.momentum = r.momentum,
                                      !.sentiment = r.sentiment, !.composite = r.composite]
    /\ fn' = "calculate_all_scores"
    /\ UNCHANGED <<risk_tolerance, args>>
    /\ UNCHANGED <<agent_vars, indicator_vars, rest_vars>>

\* nothing is kept between calls: the provider holds only its config and logger
Return ==
    /\ fn # "idle"
    /\ fn' = "idle"
    /\ df' = NoDf
    /\ search_results' = <<>>
    /\ llm' = NoLlm
    /\ args' = NoArgs
    /\ ret' = NoRet
    /\ UNCHANGED risk_tolerance
    /\ UNCHANGED <<agent_vars, indicator_vars, rest_vars>>

Next ==
    \/ TechnicalScore
    \/ RsiScoreNormalized
    \/ MomentumScore
    \/ SentimentScore
    \/ CompositeScore
    \/ GenerateTradingSignal
    \/ CalculateAllScores
    \/ Return

Spec == Init /\ [][Next]_vars

(***************************************************************************)
(* Properties                                                              *)
(***************************************************************************)
\* a number in the closed interval [0, 1]: never None, nan or infinite
In01(v) == IsNum(v) /\ 0 <= v.n /\ v.n <= v.d

\* the mathematical clamp of a number to [lo, hi]
Clamp(x, lo, hi) == IF Lt(x, lo) THEN lo ELSE IF Gt(x, hi) THEN hi ELSE x

NamedRisks == {"conservative", "moderate", "aggressive"}

SignalCall == fn = "generate_trading_signal"

\* C1 as stated: at composite 0.50 the action is HOLD for every technical score
\* and each of the three risk tolerances.
C1_HoldAtHalfAnyRisk ==
    (SignalCall /\ args.composite = Half /\ risk_tolerance \in NamedRisks)
        => ret.signal = "HOLD"

\* C1 amended: at composite 0.50 the action is HOLD for every technical score
\* under conservative and moderate, and BUY under aggressive, whose buy
\* threshold is 0.50.
C1_HoldAtHalf ==
    (SignalCall /\ args.composite = Half)
        => /\ risk_tolerance \in {"conservative", "moderate"} => ret.signal = "HOLD"
           /\ risk_tolerance = "aggressive" => ret.signal = "BUY"

C1_Witness ==
    /\ SignalCall
    /\ args.composite = Half
    /\ args.technical = One
    /\ risk_tolerance = "moderate"
    /\ ret.signal = "HOLD"

ClaimedBuy(risk) ==
    CASE risk = "conservative" -> Dec(60)
      [] risk = "aggressive" -> Dec(50)
      [] risk = "moderate" -> Dec(55)

ClaimedSell(risk) ==
    CASE risk = "conservative" -> Dec(40)
      [] risk = "aggressive" -> Dec(40)
      [] risk = "moderate" -> Dec(45)

\* C2: for every composite in [0,1] and each of the three risk tolerances the
\* action is BUY at or above the buy threshold, else SELL at or below the sell
\* threshold, else HOLD, with thresholds (0.60, 0.40) conservative, (0.50, 0.40)
\* aggressive, (0.55, 0.45) moderate; the action is one of BUY, HOLD, SELL.
C2_ThresholdAction ==
    (SignalCall /\ risk_tolerance \in NamedRisks /\ In01(args.composite))
        => /\ ret.signal \in {"BUY", "HOLD", "SELL"}
           /\ ret.signal =
                 IF Ge(args.composite, ClaimedBuy(risk_tolerance)) THEN "BUY"
                 ELSE IF Le(args.composite, ClaimedSell(risk_tolerance)) THEN "SELL"
                 ELSE "HOLD"

C2_Witness ==
    /\ SignalCall
    /\ risk_tolerance = "aggressive"
    /\ args.composite = Dec(45)
    /\ ret.signal = "HOLD"

\* 2 * |composite - 0.5| scaled by the factor f
ScaledDistance(f, composite) == Mul(Mul(f, N(2)), PyAbs(Sub(composite, Half)))

\* C3: the confidence is min(1.0, 1.2 * 2 * |composite - 0.5|) when the action
\* is HOLD, or BUY with technical > 0.6, or SELL with technical < 0.4, and
\* 0.8 * 2 * |composite - 0.5| otherwise; for composite in [0,1] it is in [0,1].
C3_Confidence ==
    (SignalCall /\ args.technical # None)
        => /\ ret.confidence =
                 IF \/ ret.signal = "HOLD"
                    \/ ret.signal = "BUY" /\ Gt(args.technical, Dec(60))
                    \/ ret.signal = "SELL" /\ Lt(args.technical, Dec(40))
                 THEN Clamp(ScaledDistance(Dec(120), args.composite), Zero, One)
                 ELSE ScaledDistance(Dec(80), args.composite)
           /\ In01(args.composite) => In01(ret.confidence)

C3_Witness ==
    /\ SignalCall
    /\ ret.signal = "BUY"
    /\ args.technical = Dec(60)
    /\ args.composite = Dec(80)
    /\ ret.confidence = Dec(48)

\* C4: technical_score, momentum_score, sentiment_score and composite_score
\* each return a number in [0,1] and never raise, whatever the table, the
\* search results and the sentiment source are.
C4_ScoresInUnitInterval ==
    /\ fn = "technical_score" => In01(ret.technical) /\ ~ret.raised
    /\ fn = "momentum_score" => In01(ret.momentum) /\ ~ret.raised
    /\ fn = "sentiment_score" => In01(ret.sentiment) /\ ~ret.raised
    /\ fn = "composite_score" => In01(ret.composite) /\ ~ret.raised
    /\ fn = "calculate_all_scores" =>
          /\ In01(ret.technical)
          /\ In01(ret.momentum)
          /\ In01(ret.sentiment)
          /\ In01(ret.composite)

\* the latest row has an undefined RSI and SMA_20 = 0 under a close of 0
C4_Witness ==
    /\ fn = "technical_score"
    /\ ~df.none
    /\ df.closes = <<Zero>>
    /\ df.SMA_20 = Zero
    /\ df.RSI = NaN
    /\ In01(ret.technical)

\* the table holds only ordinary prices: every close a non-zero number
OrdinaryCloses(d) ==
    /\ ~d.none
    /\ \A i \in 1..Len(d.closes) : IsNum(d.closes[i]) /\ d.closes[i].n # 0

\* (a - b) / b
PctChange(a, b) == Div(Sub(a, b), b)

\* the close 5 periods before the latest, or the earliest with fewer than 5 before it
ClaimedOlder(closes) == closes[IF Len(closes) > 5 THEN Len(closes) - 5 ELSE 1]

\* C5: with at least 2 observations momentum_score is computed from
\* the percent change between the latest close and the close at position
\* last-5 (the earliest close when fewer than 5 earlier periods exist); with
\* fewer than 2 observations it is 0.5.
C5_FivePeriodsEarlier ==
    fn = "momentum_score"
        => /\ (df.none \/ Len(df.closes) < 2) => ret.momentum = Half
           /\ (OrdinaryCloses(df) /\ Len(df.closes) >= 2)
                 => ret.momentum =
                       Clamp(Add(Half, Mul(N(333), Div(PctChange(LastClose(df),
                                                              ClaimedOlder(df.closes)),
                                                    N(100)))),
                             Zero, One)

MomentumOnPrices ==
    /\ fn = "momentum_score"
    /\ OrdinaryCloses(df)
    /\ Len(df.closes) >= 2

\* the percent change the code measured
MeasuredChange == PctChange(LastClose(df), older_price(df))

ClaimedMomentum(p) == Clamp(Add(Half, Div(Mul(N(333), p), N(100))), Zero, One)

\* C6: momentum is clamp(0.5 + 3.33*p, 0, 1), and +15% gives the upper extreme
\* 1.0, -15% gives the lower extreme 0.0 and 0% gives 0.5.
C6_FifteenPercentExtremes ==
    MomentumOnPrices
        => /\ ret.momentum = ClaimedMomentum(MeasuredChange)
           /\ MeasuredChange = Dec(15) => ret.momentum = One
           /\ MeasuredChange = Dec(-15) => ret.momentum = Zero
           /\ MeasuredChange = Zero => ret.momentum = Half

\* What the factor 3.33 gives: +15% maps to 0.9995 and -15% to 0.0005, 0% to
\* 0.5, and the extremes 1.0 and 0.0 are returned exactly when |p| >= 0.5/3.33.
MomentumMapping ==
    MomentumOnPrices
        => /\ ret.momentum = ClaimedMomentum(MeasuredChange)
           /\ MeasuredChange = Dec(15) => ret.momentum = R(9995, 10000)
           /\ MeasuredChange = Dec(-15) => ret.momentum = R(5, 10000)
           /\ MeasuredChange = Zero => ret.momentum = Half
           /\ ret.momentum = One <=> Ge(MeasuredChange, R(50, 333))
           /\ ret.momentum = Zero <=> Le(MeasuredChange, R(-50, 333))

\* the weighted sum W the composite is claimed to scale
ClaimedW(t, m, s) ==
    IF Le(PyAbs(Sub(s, Half)), Dec(1))
    THEN Add(Mul(Dec(60), t), Mul(Dec(40), m))
    ELSE IF Lt(t, Half) /\ Lt(m, Dec(40))
         THEN Add(Add(Mul(Dec(45), t), Mul(Dec(35), m)), Mul(Dec(20), s))
         ELSE Add(Add(Mul(Dec(40), t), Mul(Dec(30), m)), Mul(Dec(30), s))

NothingAvailable ==
    /\ fn = "calculate_all_scores"
    /\ df.none
    /\ \/ search_results = <<>>
       \/ ~llm.api_key
       \/ ~llm.package
       \/ llm.reply \in {ReplyError, ReplyText}

\* C8 as stated: with no table and no sentiment, all four scores are 0.5 under
\* each of the three risk tolerances.
C8_AllNeutral ==
    (NothingAvailable /\ risk_tolerance \in NamedRisks)
        => /\ ret.technical = Half
           /\ ret.momentum = Half
           /\ ret.sentiment = Half
           /\ ret.composite = Half

\* C8 amended: with no table and no sentiment, technical, momentum and
\* sentiment are 0.5 under each risk tolerance and the composite is 0.5 times
\* the risk multiplier: 0.425 conservative, 0.5 moderate, 0.575 aggressive.
C8_NeutralSubScores ==
    (NothingAvailable /\ risk_tolerance \in NamedRisks)
        => /\ ret.technical = Half
           /\ ret.momentum = Half
           /\ ret.sentiment = Half
           /\ ret.composite =
                 CASE risk_tolerance = "conservative" -> R(425, 1000)
                   [] risk_tolerance = "moderate" -> Half
                   [] risk_tolerance = "aggressive" -> R(575, 1000)

C8_Witness ==
    /\ NothingAvailable
    /\ risk_tolerance = "conservative"
    /\ search_results # <<>>
    /\ llm.api_key
    /\ llm.package
    /\ llm.reply = ReplyError
    /\ ret.composite = R(425, 1000)

\* the RSI sub-score as the five ranges give it
ClaimedRsiScore(rsi) ==
    CASE Le(rsi, N(25)) -> Dec(90)
      [] Gt(rsi, N(25)) /\ Le(rsi, N(30)) -> Dec(75)
      [] Ge(rsi, N(75)) -> Dec(15)
      [] Ge(rsi, N(70)) /\ Lt(rsi, N(75)) -> Dec(25)
      [] Gt(rsi, N(30)) /\ Lt(rsi, N(70)) -> Sub(Dec(75), Div(Sub(rsi, N(30)), N(80)))

\* present and not the undefined marker
Defined(cell) == cell # None /\ cell # NaN

ClaimedPriceScore(price, sma_20) ==
    Div(Sub(Clamp(Div(price, sma_20), Dec(70), Dec(130)), Dec(70)), Dec(60))

ClaimedTechnical(row) ==
    LET rsi_on == Defined(row.RSI)
        price_on == Defined(row.Close) /\ Defined(row.SMA_20)
        macd_on == Defined(row.MACD) /\ Defined(row.MACD_Signal)
        total == Add(Add(IF rsi_on THEN Dec(40) ELSE Zero,
                         IF price_on THEN Dec(40) ELSE Zero),
                     IF macd_on THEN Dec(20) ELSE Zero)
        sum == Add(Add(IF rsi_on THEN Mul(Dec(40), ClaimedRsiScore(row.RSI)) ELSE Zero,
                       IF price_on
                       THEN Mul(Dec(40), ClaimedPriceScore(row.Close, row.SMA_20))
                       ELSE Zero),
                   IF macd_on
                   THEN Mul(Dec(20), IF Gt(row.MACD, row.MACD_Signal) THEN One ELSE Dec(30))
                   ELSE Zero)
    IN  IF total = Zero THEN Half ELSE Clamp(Div(sum, total), Zero, One)

\* C9: technical_score is the weighted average (RSI 0.4, price vs
\* SMA20 0.4, MACD 0.2, renormalised) of exactly the sub-scores whose
\* indicators are defined at the latest row; a missing or undefined indicator
\* is left out, and with none available the result is 0.5.
C9_OnlyDefinedSubScores ==
    (/\ fn = "technical_score"
     /\ ~df.none
     /\ Len(df.closes) > 0
     /\ ~(LastClose(df) = Zero /\ df.SMA_20 = Zero))
        => ret.technical = ClaimedTechnical(LastRow(df))

\* C10: the RSI sub-score is 0.9 for RSI <= 25, 0.75 for 25 < RSI <= 30, 0.15
\* for RSI >= 75, 0.25 for 70 <= RSI < 75 and 0.75 - (RSI - 30) * 0.5 / 40 in
\* between; for every RSI in [0,100] it lies in [0,1].
C10_RsiScore ==
    fn = "_rsi_score_normalized"
        => /\ ret.rsi_score = ClaimedRsiScore(args.rsi)
           /\ In01(ret.rsi_score)

C10_Witness ==
    /\ fn = "_rsi_score_normalized"
    /\ args.rsi = R(61, 2)
    /\ ret.rsi_score = R(119, 160)

\* Over rows whose cells are each absent or a number, technical_score is the
\* renormalised weighted average of the sub-scores present.
TechnicalOnNumbers ==
    (/\ fn = "technical_score"
     /\ ~df.none
     /\ Len(df.closes) > 0
     /\ NaN \notin {df.RSI, LastClose(df), df.SMA_20, df.MACD, df.MACD_Signal}
     /\ ~(LastClose(df) = Zero /\ df.SMA_20 = Zero))
        => ret.technical = ClaimedTechnical(LastRow(df))

(***************************************************************************)
(* Sentiment                                                               *)
(***************************************************************************)
SentimentCall == fn = "sentiment_score"

\* the external call cannot give a number: no credentials, no package, the
\* service fails, or the reply is not a number
ClaimedFailure(l) ==
    ~l.api_key \/ ~l.package \/ l.reply = ReplyError \/ l.reply = ReplyText

\* the service was asked and answered with a number s, 0 <= s <= 100
AnsweredInRange ==
    /\ llm.api_key /\ llm.package
    /\ texts(search_results) # <<>>
    /\ IsNum(llm.reply) /\ Le(Zero, llm.reply) /\ Le(llm.reply, N(100))

\* C11: sentiment_score never raises; it returns 0.5 for an empty result
\* list and whenever the external call fails (no credentials, no package,
\* service error, non-numeric reply); an answer s in 0..100 gives
\* clamp(s / 100, 0, 1).
C11_NeutralOnFailure ==
    SentimentCall =>
        /\ ~ret.raised
        /\ (search_results = <<>> => ret.sentiment = Half)
        /\ (ClaimedFailure(llm) => ret.sentiment = Half)
        /\ (AnsweredInRange =>
               ret.sentiment = Clamp(Div(llm.reply, N(100)), Zero, One))

\* the service is asked about a result with text and replies with words
C11_Witness ==
    /\ SentimentCall
    /\ texts(search_results) # <<>>
    /\ llm.api_key /\ llm.package /\ llm.reply = ReplyText
    /\ ret.sentiment = Half
    /\ ~ret.raised

(***************************************************************************)
(* SearchProvider.search and TickerResearchAgent.execute                   *)
(*                                                                         *)
(* The search backend is a generator: for each query it yields items one   *)
(* at a time and then stops, or fails.  execute is followed item by item   *)
(* through the search loop; everything after the search (scores, signal,   *)
(* result) happens in the step that leaves the loop.                       *)
(***************************************************************************)
\* item.get(key) of a key the item lacks, or an empty string
NoUrl == ""

\* url = item.get("href") or item.get("url")
url_of(item) == IF item.href # NoUrl THEN item.href ELSE item.url

\* the record appended for an item; title and snippet say whether the item
\* carries a title and a body or description
record_of(item) ==
    [url |-> url_of(item), title |-> item.title, snippet |-> item.body]

\* one pass of the inner loop body: break at the cap, skip a URL seen
\* before, else remember the URL and append the record
\* search_item without the test on seen_urls
search_item_keep_all(results, seen, max_results, item) ==
    IF Len(results) >= max_results
    THEN [results |-> results, seen |-> seen, stop |-> TRUE]
    ELSE [results |-> Append(results, record_of(item)),
          seen |-> seen \cup {url_of(item)}, stop |-> FALSE]

search_item(results, seen, max_results, item) ==
    IF Len(results) >= max_results
    THEN [results |-> results, seen |-> seen, stop |-> TRUE]
    ELSE IF url_of(item) # NoUrl /\ url_of(item) \in seen
    THEN [results |-> results, seen |-> seen, stop |-> FALSE]
    ELSE [results |-> Append(results, record_of(item)),
          seen |-> seen \cup {url_of(item)}, stop |-> FALSE]

QueriesBase == 4
QueriesFinancial == 3

\* len(build_queries()): four queries, three more with financial terms
num_queries(c) ==
    IF c.include_financial_terms THEN QueriesBase + QueriesFinancial ELSE QueriesBase

\* round(x, 1): to one decimal, ties to the even neighbour
RoundHalfEven(n, d) ==
    LET f == n \div d
        r == n - f * d
    IN  IF 2 * r < d THEN f
        ELSE IF 2 * r > d THEN f + 1
        ELSE IF f % 2 = 0 THEN f ELSE f + 1

Round1(x) == IF IsNum(x) THEN R(RoundHalfEven(x.n * 10, x.d), 10) ELSE x

\* the dictionary execute returns: the signal fields are filled in only when
\* trading signals are enabled
execute_return(scores, sig, results_count, c) ==
    [returned |-> TRUE,
     error |-> "",
     results_count |-> results_count,
     sentiment |-> scores.sentiment,
     composite |-> scores.composite,
     has_signal |-> c.enable_trading_signals,
     recommendation |-> IF c.enable_trading_signals THEN sig.signal ELSE "",
     confidence |-> IF c.enable_trading_signals
                    THEN Round1(Mul(sig.confidence, N(100))) ELSE Unset]

\* step 5 of execute: the trading signal from the scores of step 4
execute_signal(scores, results_count, risk, c) ==
    execute_return(scores,
                   generate_trading_signal(risk, scores.composite, scores.technical),
                   results_count, c)

\* steps 4 and 5 of execute and the value it returns
execute_result(d, results, l, risk, c) ==
    execute_signal(calculate_all_scores(d, results, l, risk), Len(results), risk, c)

\* what the backend yields: the URL under href, under url, under both, or
\* under neither; with or without title and body
Items ==
    {[href |-> "a", url |-> NoUrl, title |-> TRUE, body |-> TRUE],
     [href |-> NoUrl, url |-> "a", title |-> FALSE, body |-> TRUE],
     [href |-> "b", url |-> "a", title |-> TRUE, body |-> FALSE],
     [href |-> NoUrl, url |-> NoUrl, title |-> FALSE, body |-> FALSE]}

MaxArrivals == 3

AgentCfgs ==
    [max_results : 1..MaxResults, enable_trading_signals : BOOLEAN,
     include_financial_terms : BOOLEAN]
AgentDfs == {NoDf, Table(<<N(100), N(115)>>)}
AgentLlms == {NoLlm, [api_key |-> TRUE, package |-> TRUE, reply |-> N(80)]}

InitAgent ==
    /\ risk_tolerance \in {"conservative", "moderate", "aggressive"}
    /\ Idle
    /\ IndicatorIdle
    /\ RestIdle
    /\ initialized = FALSE
    /\ backend \in BOOLEAN
    /\ cfg \in AgentCfgs
    /\ pc = "idle"
    /\ pending = 0
    /\ arrived = <<>>
    /\ raw_results = <<>>
    /\ seen_urls = {}
    /\ result = NoResult

\* initialize with no trading profile configured: only defaults are filled in
Initialize ==
    /\ pc = "idle"
    /\ initialized' = TRUE
    /\ UNCHANGED <<risk_tolerance, fn, df, search_results, llm, args, ret, backend, cfg,
                   pc, pending, arrived, raw_results, seen_urls, result, indicator_vars, rest_vars>>

AgentError == [NoResult EXCEPT !.error = "AgentError"]

\* execute with a search that starts its loop whether or not a backend exists
Execute_without_backend_guard ==
    /\ pc = "idle"
    /\ IF ~initialized
       THEN /\ pc' = "raised"
            /\ result' = AgentError
            /\ UNCHANGED <<df, pending>>
       ELSE /\ df' \in AgentDfs
            /\ pc' = "search"
            /\ pending' = num_queries(cfg)
            /\ UNCHANGED result
    /\ UNCHANGED <<risk_tolerance, fn, search_results, llm, args, ret, initialized, backend,
                   cfg, arrived, raw_results, seen_urls, indicator_vars, rest_vars>>

\* execute up to the first request to the backend: the initialized guard,
\* the market data, the queries, and search's guard on the backend
Execute ==
    /\ pc = "idle"
    /\ IF ~initialized
       THEN /\ pc' = "raised"
            /\ result' = AgentError
            /\ UNCHANGED <<df, pending>>
       ELSE /\ df' \in AgentDfs
            /\ IF ~backend
               THEN /\ pc' = "raised"
                    /\ result' = AgentError
                    /\ UNCHANGED pending
               ELSE /\ pc' = "search"
                    /\ pending' = num_queries(cfg)
                    /\ UNCHANGED result
    /\ UNCHANGED <<risk_tolerance, fn, search_results, llm, args, ret, initialized, backend,
                   cfg, arrived, raw_results, seen_urls, indicator_vars, rest_vars>>

\* search returns results and execute runs to its return statement
Finish ==
    /\ pc' = "returned"
    /\ pending' = 0
    /\ llm' \in AgentLlms
    /\ result' = execute_result(df, raw_results, llm', risk_tolerance, cfg)
    /\ UNCHANGED <<raw_results, seen_urls>>

\* the backend yields one more item for the running query
Yield ==
    /\ pc = "search"
    /\ Len(arrived) < MaxArrivals
    /\ \E item \in Items :
          LET r == search_item(raw_results, seen_urls, cfg.max_results, item)
          IN  /\ arrived' = Append(arrived, item)
              /\ IF r.stop
                 THEN Finish
                 ELSE /\ raw_results' = r.results
                      /\ seen_urls' = r.seen
                      /\ UNCHANGED <<pc, pending, llm, result>>
    /\ UNCHANGED <<risk_tolerance, fn, df, search_results, args, ret, initialized, backend,
                   cfg, indicator_vars, rest_vars>>

\* the backend has no more items for the running query
EndOfQuery ==
    /\ pc = "search"
    /\ IF Len(raw_results) >= cfg.max_results \/ pending = 1
       THEN Finish
       ELSE /\ pending' = pending - 1
            /\ UNCHANGED <<pc, llm, result, raw_results, seen_urls>>
    /\ UNCHANGED <<risk_tolerance, fn, df, search_results, args, ret, initialized, backend,
                   cfg, arrived, indicator_vars, rest_vars>>

\* ddgs.text raises: nothing in search or execute catches it
BackendFails ==
    /\ pc = "search"
    /\ pc' = "raised"
    /\ result' = [NoResult EXCEPT !.error = "BackendError"]
    /\ UNCHANGED <<risk_tolerance, fn, df, search_results, llm, args, ret, initialized,
                   backend, cfg, pending, arrived, raw_results, seen_urls, indicator_vars, rest_vars>>

\* the caller has the result or the exception; the next search starts with
\* its own empty list and URL set
AgentReturn ==
    /\ pc \in {"returned", "raised"}
    /\ pc' = "idle"
    /\ df' = NoDf
    /\ llm' = NoLlm
    /\ pending' = 0
    /\ arrived' = <<>>
    /\ raw_results' = <<>>
    /\ seen_urls' = {}
    /\ result' = NoResult
    /\ UNCHANGED <<risk_tolerance, fn, search_results, args, ret, initialized, backend, cfg,
                   indicator_vars, rest_vars>>

NextAgent ==
    \/ Initialize
    \/ Execute
    \/ Yield
    \/ EndOfQuery
    \/ BackendFails
    \/ AgentReturn

SpecAgent == InitAgent /\ [][NextAgent]_vars

(***************************************************************************)
(* Search results                                                          *)
(***************************************************************************)
SearchReturned == pc = "returned"

\* the records of the items in the order the backend yielded them
ArrivedRecords == [i \in 1..Len(arrived) |-> record_of(arrived[i])]

\* recs[1..i] with every record dropped whose URL an earlier one carries;
\* missing_too says whether a missing URL counts as a URL
RECURSIVE FirstOccurrences(_, _, _)
FirstOccurrences(recs, i, missing_too) ==
    IF i = 0 THEN <<>>
    ELSE LET rest == FirstOccurrences(recs, i - 1, missing_too)
             dup == /\ (missing_too \/ recs[i].url # NoUrl)
                    /\ \E j \in 1..(i - 1) : recs[j].url = recs[i].url
         IN  IF dup THEN rest ELSE Append(rest, recs[i])

Take(seq, n) == SubSeq(seq, 1, IF n < Len(seq) THEN n ELSE Len(seq))

\* C12 as stated: search returns at most max_results records, no two with
\* the same URL, a missing URL included, each URL's first arrival kept in
\* arrival order.
C12_NoTwoSameUrl ==
    SearchReturned =>
        /\ Len(raw_results) <= cfg.max_results
        /\ \A i, j \in 1..Len(raw_results) :
              i # j => raw_results[i].url # raw_results[j].url
        /\ raw_results =
              Take(FirstOccurrences(ArrivedRecords, Len(arrived), TRUE), cfg.max_results)

\* C12 amended: search returns at most max_results records, no two with the
\* same URL unless that URL is missing, each URL's first arrival kept in
\* arrival order; records without a URL are all kept up to the cap.
C12_NoTwoSamePresentUrl ==
    SearchReturned =>
        /\ Len(raw_results) <= cfg.max_results
        /\ \A i, j \in 1..Len(raw_results) :
              i # j /\ raw_results[i].url = raw_results[j].url
                  => raw_results[i].url = NoUrl
        /\ raw_results =
              Take(FirstOccurrences(ArrivedRecords, Len(arrived), FALSE), cfg.max_results)

\* URL a arrives twice and is kept once, then a record without URL fills the cap
C12_Witness ==
    /\ SearchReturned
    /\ Len(arrived) = 3
    /\ url_of(arrived[1]) = "a" /\ url_of(arrived[2]) = "a"
    /\ Len(raw_results) = 2
    /\ cfg.max_results = 2
    /\ raw_results[1] = record_of(arrived[1])
    /\ raw_results[2].url = NoUrl

(***************************************************************************)
(* Missing backend and empty result set                                    *)
(***************************************************************************)
Signals == {"BUY", "HOLD", "SELL"}

\* without a backend execute ends in AgentError and never reaches the search
\* loop or a return value
FatalWithoutBackend ==
    ~backend =>
        /\ pc \in {"idle", "raised"}
        /\ (pc = "raised" => result.error = "AgentError" /\ ~result.returned)

\* with a backend an initialized agent is stopped only by a failing backend
OnlyBackendStops ==
    backend /\ initialized /\ pc = "raised" => result.error = "BackendError"

EmptyResultSet == pc = "returned" /\ raw_results = <<>>

\* C13 as stated: with no backend search raises AgentError and execute
\* passes it on without a result; with a backend that yields no results
\* execute completes with sentiment 0.5 and a trading signal.
C13_EmptyGivesSignal ==
    /\ FatalWithoutBackend
    /\ OnlyBackendStops
    /\ (EmptyResultSet =>
          /\ result.returned
          /\ result.sentiment = Half
          /\ result.has_signal
          /\ result.recommendation \in Signals)

\* C13 amended: with no backend search raises AgentError and execute passes
\* it on without a result; with a backend that yields no results execute
\* completes with sentiment 0.5, and with a trading signal exactly when
\* enable_trading_signals is set.
C13_EmptyGivesSignalIfEnabled ==
    /\ FatalWithoutBackend
    /\ OnlyBackendStops
    /\ (EmptyResultSet =>
          /\ result.returned
          /\ result.sentiment = Half
          /\ result.has_signal = cfg.enable_trading_signals
          /\ (result.has_signal => result.recommendation \in Signals)
          /\ (~result.has_signal => result.recommendation = ""))

\* every query ended without an item although credentials and service work
C13_Witness ==
    /\ EmptyResultSet
    /\ arrived = <<>>
    /\ backend
    /\ llm.api_key /\ llm.package
    /\ cfg.enable_trading_signals
    /\ result.sentiment = Half
    /\ result.recommendation \in Signals

(***************************************************************************)
(* stock_analysis.analyzer: arguments, outcomes and the pandas operations  *)
(* the indicator functions use.  A Series is a sequence of floats in which *)
(* nan marks an undefined entry; tolist() keeps them as nan.               *)
(***************************************************************************)
\* an argument that is not a list, and a list of elements
NotAList == [list |-> FALSE, items |-> <<>>]
List(xs) == [list |-> TRUE, items |-> xs]

\* a list element that is a string
Str == [k |-> "str", n |-> 0, d |-> 1]

\* window and period arguments: the int v, the float v.0, a string
PyInt(v) == [t |-> "int", v |-> v]
PyFloat(v) == [t |-> "float", v |-> v]
PyStr == [t |-> "str", v |-> 0]

\* isinstance(data, list) and all(isinstance(x, (int, float)) for x in data)
is_number_list(a) == a.list /\ \A i \in 1..Len(a.items) : IsFloat(a.items[i])

\* isinstance(window, int) alone
is_int(w) == w.t = "int"

\* isinstance(window, int) and window > 0
is_positive_int(w) == w.t = "int" /\ w.v > 0

\* isinstance(num_std_dev, (int, float)) and num_std_dev > 0
is_positive_number(x) == x.t \in {"int", "float"} /\ x.v > 0

TypeError == [raised |-> "TypeError", value |-> <<>>]
ValueError == [raised |-> "ValueError", value |-> <<>>]
Result(v) == [raised |-> "", value |-> v]

\* a window one entry short
WindowStart_short(i, w) == IF i - w + 2 < 1 THEN 1 ELSE i - w + 2

\* first index of the window that ends at i
WindowStart(i, w) == IF i - w + 1 < 1 THEN 1 ELSE i - w + 1

CountValid(xs, lo, hi) == Cardinality({j \in lo..hi : xs[j] # NaN})

RECURSIVE SumValid(_, _, _)
SumValid(xs, lo, hi) ==
    IF lo > hi THEN Zero
    ELSE Add(SumValid(xs, lo, hi - 1), IF xs[hi] = NaN THEN Zero ELSE xs[hi])

\* rolling mean over whatever part of the window exists
rolling_mean_partial(xs, w, min_periods) ==
    [i \in 1..Len(xs) |->
        LET lo == WindowStart(i, w)
            c == CountValid(xs, lo, i)
        IN  IF c < 1 THEN NaN ELSE Div(SumValid(xs, lo, i), N(c))]

\* Series.rolling(window, min_periods).mean(): the mean of the window's
\* defined entries, nan while fewer than min_periods of them are there
rolling_mean(xs, w, min_periods) ==
    [i \in 1..Len(xs) |->
        LET lo == WindowStart(i, w)
            c == CountValid(xs, lo, i)
        IN  IF c < min_periods THEN NaN ELSE Div(SumValid(xs, lo, i), N(c))]

\* Series.rolling(window).min() and .max(), min_periods = window
rolling_min(xs, w) ==
    [i \in 1..Len(xs) |->
        LET lo == WindowStart(i, w)
        IN  IF CountValid(xs, lo, i) < w THEN NaN
            ELSE xs[CHOOSE j \in lo..i : \A m \in lo..i : Le(xs[j], xs[m])]]

rolling_max(xs, w) ==
    [i \in 1..Len(xs) |->
        LET lo == WindowStart(i, w)
        IN  IF CountValid(xs, lo, i) < w THEN NaN
            ELSE xs[CHOOSE j \in lo..i : \A m \in lo..i : Ge(xs[j], xs[m])]]

RECURSIVE SumSquares(_, _, _, _)
SumSquares(xs, mean, lo, hi) ==
    IF lo > hi THEN Zero
    ELSE Add(SumSquares(xs, mean, lo, hi - 1),
             Mul(Sub(xs[hi], mean), Sub(xs[hi], mean)))

\* the square of Series.rolling(window).std(): the sample variance (ddof 1),
\* nan for a window of one
rolling_var(xs, w) ==
    [i \in 1..Len(xs) |->
        LET lo == WindowStart(i, w)
        IN  IF CountValid(xs, lo, i) < w \/ w < 2 THEN NaN
            ELSE Div(SumSquares(xs, Div(SumValid(xs, lo, i), N(w)), lo, i), N(w - 1))]

\* Series.diff(): the first entry has no predecessor
diff(xs) == [i \in 1..Len(xs) |-> IF i = 1 THEN NaN ELSE Sub(xs[i], xs[i - 1])]

\* Series.clip(lower=b) and Series.clip(upper=b); nan stays nan
clip_lower(xs, b) == [i \in 1..Len(xs) |-> IF Lt(xs[i], b) THEN b ELSE xs[i]]
clip_upper(xs, b) == [i \in 1..Len(xs) |-> IF Gt(xs[i], b) THEN b ELSE xs[i]]

\* Series.ewm(alpha, adjust=False).mean() of a series without nan
RECURSIVE ewm_at(_, _, _)
ewm_at(xs, alpha, i) ==
    IF i = 1 THEN xs[1]
    ELSE Add(Mul(Sub(One, alpha), ewm_at(xs, alpha, i - 1)), Mul(alpha, xs[i]))

ewm_mean(xs, alpha) == [i \in 1..Len(xs) |-> ewm_at(xs, alpha, i)]

\* ewm(span=s): alpha = 2 / (s + 1)
span_alpha(s) == R(2, s + 1)

(***************************************************************************)
(* The indicator functions                                                 *)
(***************************************************************************)
calculate_moving_average(data, window) ==
    IF ~is_number_list(data) THEN TypeError
    ELSE IF ~is_positive_int(window) THEN ValueError
    ELSE Result(rolling_mean(data.items, window.v, window.v))

calculate_exponential_moving_average(data, window) ==
    IF ~is_number_list(data) THEN TypeError
    ELSE IF ~is_positive_int(window) THEN ValueError
    ELSE Result(ewm_mean(data.items, span_alpha(window.v)))

\* rsi = 100 - 100 / (1 + avg_gain / avg_loss) without the two masks
rsi_value_unmasked(avg_gain, avg_loss) ==
    Sub(N(100), Div(N(100), Add(One, Div(avg_gain, avg_loss))))

\* rsi = 100 - 100 / (1 + avg_gain / avg_loss), set to 100 where there is
\* gain and no loss and to 50 where there is neither
rsi_value(avg_gain, avg_loss) ==
    LET no_loss_mask == Eq(avg_loss, Zero) /\ Gt(avg_gain, Zero)
        neutral_mask == Eq(avg_gain, Zero) /\ Eq(avg_loss, Zero)
    IN  IF neutral_mask THEN N(50)
        ELSE IF no_loss_mask THEN N(100)
        ELSE Sub(N(100), Div(N(100), Add(One, Div(avg_gain, avg_loss))))

gains_of(xs) == clip_lower(diff(xs), Zero)
losses_of(xs) == [i \in 1..Len(xs) |-> Neg(clip_upper(diff(xs), Zero)[i])]

calculate_rsi(data, window) ==
    IF ~is_number_list(data) THEN TypeError
    ELSE IF ~is_positive_int(window) THEN ValueError
    ELSE IF Len(data.items) < window.v THEN Result(<<>>)
    ELSE LET avg_gain == rolling_mean(gains_of(data.items), window.v, window.v)
             avg_loss == rolling_mean(losses_of(data.items), window.v, window.v)
         IN  Result([i \in 1..Len(data.items) |-> rsi_value(avg_gain[i], avg_loss[i])])

Minus(xs, ys) == [i \in 1..Len(xs) |-> Sub(xs[i], ys[i])]

calculate_macd(data, fast_period, slow_period, signal_period) ==
    IF ~is_number_list(data) THEN TypeError
    ELSE IF ~(is_positive_int(fast_period) /\ is_positive_int(slow_period)
              /\ is_positive_int(signal_period)) THEN ValueError
    ELSE IF slow_period.v <= fast_period.v THEN ValueError
    ELSE LET fast_ema == ewm_mean(data.items, span_alpha(fast_period.v))
             slow_ema == ewm_mean(data.items, span_alpha(slow_period.v))
             macd_line == Minus(fast_ema, slow_ema)
             signal_line == ewm_mean(macd_line, span_alpha(signal_period.v))
         IN  Result(<<macd_line, signal_line, Minus(macd_line, signal_line)>>)

\* The bands are middle + std * num_std_dev and middle - std * num_std_dev.
\* The square root is not taken: the result carries the middle band and
\* the square of the bands' distance from it, nan where the distance is.
calculate_bollinger_bands(data, window, num_std_dev) ==
    IF ~is_number_list(data) THEN TypeError
    ELSE IF ~is_positive_int(window) THEN ValueError
    ELSE IF ~is_positive_number(num_std_dev) THEN ValueError
    ELSE LET middle_band == rolling_mean(data.items, window.v, window.v)
             variance == rolling_var(data.items, window.v)
         IN  Result([middle |-> middle_band,
                     distance_sq |->
                        [i \in 1..Len(data.items) |->
                            Mul(variance[i], N(num_std_dev.v * num_std_dev.v))]])

\* isinstance(data, list) and all numbers, for each of the lists
all_number_lists(lists) == \A i \in 1..Len(lists) : is_number_list(lists[i])

\* %K at one position as computed, without replacing a zero range
percent_k_at_unguarded(close, lowest_low, highest_high) ==
    Div(Mul(N(100), Sub(close, lowest_low)), Sub(highest_high, lowest_low))

\* %K at one position: 100 * (close - lowest_low) / safe_range, and 0.0
\* where the range is zero
percent_k_at(close, lowest_low, highest_high) ==
    LET price_range == Sub(highest_high, lowest_low)
        safe_range == IF Eq(price_range, Zero) THEN NaN ELSE price_range
    IN  IF Eq(price_range, Zero) THEN Zero
        ELSE Div(Mul(N(100), Sub(close, lowest_low)), safe_range)

calculate_stochastic_oscillator(high, low, close, window, k_smoothing) ==
    IF ~all_number_lists(<<high, low, close>>) THEN TypeError
    ELSE IF Len(high.items) # Len(low.items) \/ Len(low.items) # Len(close.items)
    THEN ValueError
    ELSE IF ~is_positive_int(window) THEN ValueError
    ELSE IF ~is_positive_int(k_smoothing) THEN ValueError
    ELSE LET lowest_low == rolling_min(low.items, window.v)
             highest_high == rolling_max(high.items, window.v)
             percent_k == [i \in 1..Len(close.items) |->
                              percent_k_at(close.items[i], lowest_low[i], highest_high[i])]
         IN  Result(<<percent_k, rolling_mean(percent_k, k_smoothing.v, 1)>>)

\* the row maximum of high - low, |high - close.shift()| and
\* |low - close.shift()|, skipping the nan of the first row
true_range(high, low, close) ==
    [i \in 1..Len(high) |->
        LET high_low == Sub(high[i], low[i])
        IN  IF i = 1 THEN high_low
            ELSE PyMax(PyMax(high_low, PyAbs(Sub(high[i], close[i - 1]))),
                       PyAbs(Sub(low[i], close[i - 1])))]

calculate_average_true_range(high, low, close, window) ==
    IF ~all_number_lists(<<high, low, close>>) THEN TypeError
    ELSE IF Len(high.items) # Len(low.items) \/ Len(low.items) # Len(close.items)
    THEN ValueError
    ELSE IF ~is_positive_int(window) THEN ValueError
    ELSE Result(ewm_mean(true_range(high.items, low.items, close.items), R(1, window.v)))

\* the loop body with the two signs exchanged
obv_step_swapped(previous, close_now, close_before, volume_now) ==
    IF Gt(close_now, close_before) THEN Sub(previous, volume_now)
    ELSE IF Lt(close_now, close_before) THEN Add(previous, volume_now)
    ELSE previous

\* the loop body: obv[i] from obv[i - 1]
obv_step(previous, close_now, close_before, volume_now) ==
    IF Gt(close_now, close_before) THEN Add(previous, volume_now)
    ELSE IF Lt(close_now, close_before) THEN Sub(previous, volume_now)
    ELSE previous

\* the loop started from volume[0] instead of 0.0
RECURSIVE obv_at_from_volume(_, _, _)
obv_at_from_volume(close, volume, i) ==
    IF i = 1 THEN volume[1]
    ELSE obv_step(obv_at_from_volume(close, volume, i - 1), close[i], close[i - 1], volume[i])

\* obv = [0.0] * len(close), then the loop from index 1
RECURSIVE obv_at(_, _, _)
obv_at(close, volume, i) ==
    IF i = 1 THEN Zero
    ELSE obv_step(obv_at(close, volume, i - 1), close[i], close[i - 1], volume[i])

calculate_on_balance_volume(close, volume) ==
    IF ~is_number_list(close) THEN TypeError
    ELSE IF ~is_number_list(volume) THEN TypeError
    ELSE IF Len(close.items) # Len(volume.items) THEN ValueError
    ELSE Result([i \in 1..Len(close.items) |-> obv_at(close.items, volume.items, i)])

(***************************************************************************)
(* The analyzer as a state machine: one call at a time; call holds the     *)
(* function's name, its list arguments and its window and period           *)
(* arguments in parameter order, out what it raised or returned.           *)
(***************************************************************************)
MaxData == 4
MaxWindow == 3
MaxBars == 2

Prices == {N(1), N(2), N(3)}
Volumes == {N(-1), N(0), N(2)}

DataArgs ==
    {NotAList, List(<<Str>>), List(<<N(1), Str>>)}
    \cup {List(xs) : xs \in SeqsUpTo(Prices, MaxData)}

WindowArgs == {PyInt(v) : v \in -1..MaxWindow} \cup {PyFloat(2), PyStr}

\* lists that fail a check of the three-list functions
BadTriples ==
    {<<NotAList, List(<<>>), List(<<>>)>>,
     <<List(<<N(2)>>), List(<<Str>>), List(<<N(1)>>)>>,
     <<List(<<N(2), N(2)>>), List(<<N(1)>>), List(<<N(1)>>)>>,
     <<List(<<N(2)>>), List(<<N(1)>>), List(<<>>)>>}

Column(bars, c) == List([i \in 1..Len(bars) |-> bars[i][c]])

\* high, low and close of up to MaxBars bars, each price chosen freely
TripleArgs ==
    BadTriples
    \cup {<<Column(b, 1), Column(b, 2), Column(b, 3)>> :
            b \in SeqsUpTo(Prices \X Prices \X Prices, MaxBars)}

AtrArgs ==
    BadTriples
    \cup {<<Column(b, 1), Column(b, 2), Column(b, 3)>> :
            b \in SeqsUpTo({<<N(2), N(1), N(1)>>, <<N(3), N(1), N(2)>>}, MaxBars)}

\* close and volume of equal length, and pairs that fail a check
PairArgs ==
    {<<NotAList, List(<<>>)>>, <<List(<<N(1)>>), List(<<Str>>)>>,
     <<List(<<N(1), N(2)>>), List(<<N(2)>>)>>}
    \cup {<<Column(b, 1), Column(b, 2)>> : b \in SeqsUpTo(Prices \X Volumes, MaxData)}

Called(name, lists, periods, r) ==
    /\ call' = [NoCall EXCEPT !.name = name, !.lists = lists, !.periods = periods]
    /\ out' = r
    /\ UNCHANGED <<risk_tolerance, fn, df, search_results, llm, args, ret, agent_vars, rest_vars>>

MovingAverage ==
    /\ call.name = ""
    /\ \E data \in DataArgs, window \in WindowArgs :
           Called("calculate_moving_average", <<data>>, <<window>>,
                  calculate_moving_average(data, window))

ExponentialMovingAverage ==
    /\ call.name = ""
    /\ \E data \in DataArgs, window \in WindowArgs :
           Called("calculate_exponential_moving_average", <<data>>, <<window>>,
                  calculate_exponential_moving_average(data, window))

Rsi ==
    /\ call.name = ""
    /\ \E data \in DataArgs, window \in WindowArgs :
           Called("calculate_rsi", <<data>>, <<window>>, calculate_rsi(data, window))

Macd ==
    /\ call.name = ""
    /\ \E data \in DataArgs, fast \in {PyInt(0), PyInt(1), PyInt(2), PyStr},
          slow \in {PyInt(1), PyInt(2), PyInt(3)}, signal \in {PyInt(0), PyInt(2)} :
           Called("calculate_macd", <<data>>, <<fast, slow, signal>>,
                  calculate_macd(data, fast, slow, signal))

BollingerBands ==
    /\ call.name = ""
    /\ \E data \in DataArgs, window \in WindowArgs, num_std_dev \in {PyInt(0), PyFloat(2)} :
        /\ call' = [name |-> "calculate_bollinger_bands", lists |-> <<data>>,
                    periods |-> <<window>>, num_std_dev |-> num_std_dev]
        /\ out' = calculate_bollinger_bands(data, window, num_std_dev)
        /\ UNCHANGED <<risk_tolerance, fn, df, search_results, llm, args, ret, agent_vars, rest_vars>>

StochasticOscillator ==
    /\ call.name = ""
    /\ \E t \in TripleArgs, window \in {PyInt(v) : v \in 0..(MaxBars + 1)} \cup {PyStr},
          k_smoothing \in {PyInt(0), PyInt(2)} :
           Called("calculate_stochastic_oscillator", t, <<window, k_smoothing>>,
                  calculate_stochastic_oscillator(t[1], t[2], t[3], window, k_smoothing))

AverageTrueRange ==
    /\ call.name = ""
    /\ \E t \in AtrArgs, window \in {PyInt(0), PyInt(2), PyStr} :
           Called("calculate_average_true_range", t, <<window>>,
                  calculate_average_true_range(t[1], t[2], t[3], window))

OnBalanceVolume ==
    /\ call.name = ""
    /\ \E p \in PairArgs :
           Called("calculate_on_balance_volume", p, <<>>,
                  calculate_on_balance_volume(p[1], p[2]))

\* the functions keep nothing between calls
IndicatorReturn ==
    /\ call.name # ""
    /\ call' = NoCall
    /\ out' = NoOut
    /\ UNCHANGED <<risk_tolerance, fn, df, search_results, llm, args, ret, agent_vars, rest_vars>>

InitIndicators ==
    /\ risk_tolerance = "moderate"
    /\ Idle
    /\ AgentIdle
    /\ IndicatorIdle
    /\ RestIdle

NextIndicators ==
    \/ MovingAverage
    \/ ExponentialMovingAverage
    \/ Rsi
    \/ Macd
    \/ BollingerBands
    \/ StochasticOscillator
    \/ AverageTrueRange
    \/ OnBalanceVolume
    \/ IndicatorReturn

SpecIndicators == InitIndicators /\ [][NextIndicators]_vars

(***************************************************************************)
(* Indicator inputs                                                        *)
(***************************************************************************)
IndicatorCall == call.name # ""

\* a list argument that is no list, or has an element that is no number
NotNumbers(a) ==
    ~a.list \/ \E i \in 1..Len(a.items) : a.items[i].k \notin {"num", "nan", "pinf", "ninf"}

\* a window or period that is not a positive integer
NotPositiveInteger(p) == p.t # "int" \/ p.v < 1

ClaimedInvalid ==
    \/ \E i \in 1..Len(call.lists) : NotNumbers(call.lists[i])
    \/ \E i \in 1..Len(call.periods) : NotPositiveInteger(call.periods[i])
    \/ \E i, j \in 1..Len(call.lists) :
          Len(call.lists[i].items) # Len(call.lists[j].items)
    \/ /\ call.name = "calculate_macd"
       /\ call.periods[2].v <= call.periods[1].v

Rejected == out.raised \in {"TypeError", "ValueError"}

\* C14: every indicator function answers an argument that is not a list of
\* numbers, a window or period that is not a positive integer, paired lists
\* of different lengths, and for calculate_macd slow_period <= fast_period,
\* with a type or value error and no result.
C14_InvalidInputRejected ==
    IndicatorCall /\ ClaimedInvalid => Rejected

\* calculate_macd on good data with slow_period equal to fast_period
C14_Witness ==
    /\ call.name = "calculate_macd"
    /\ call.lists = <<List(<<N(1), N(2)>>)>>
    /\ call.periods = <<PyInt(2), PyInt(2), PyInt(2)>>
    /\ out.raised = "ValueError"

(***************************************************************************)
(* Input shorter than the window                                           *)
(***************************************************************************)
\* a call whose arguments pass every check of the function
ValidCall ==
    /\ IndicatorCall
    /\ ~ClaimedInvalid
    /\ call.num_std_dev.t \in {"int", "float"} /\ call.num_std_dev.v > 0

InputLength == Len(call.lists[1].items)

\* the function has a window, and the input has fewer entries than that
ShorterThanWindow ==
    /\ ValidCall
    /\ Len(call.periods) >= 1
    /\ InputLength < call.periods[1].v

AllUndefined(xs) == Len(xs) = InputLength /\ \A i \in 1..Len(xs) : xs[i] = NaN

\* C15: on input shorter than the window no indicator function raises;
\* calculate_rsi returns the empty list; calculate_moving_average,
\* calculate_bollinger_bands and %K of calculate_stochastic_oscillator are
\* lists of the input's length with every entry undefined.
C15_ShortInputUndefined ==
    ShorterThanWindow =>
        /\ out.raised = ""
        /\ (call.name = "calculate_rsi" => out.value = <<>>)
        /\ (call.name = "calculate_moving_average" => AllUndefined(out.value))
        /\ (call.name = "calculate_bollinger_bands" =>
              AllUndefined(out.value.middle) /\ AllUndefined(out.value.distance_sq))
        /\ (call.name = "calculate_stochastic_oscillator" => AllUndefined(out.value[1]))

\* two bars and a window of three
C15_Witness ==
    /\ call.name = "calculate_stochastic_oscillator"
    /\ ShorterThanWindow
    /\ InputLength = 2
    /\ call.periods[1] = PyInt(3)
    /\ out.value[1] = <<NaN, NaN>>

(***************************************************************************)
(* Moving average                                                          *)
(***************************************************************************)
RECURSIVE PlainSum(_, _, _)
PlainSum(xs, lo, hi) == IF lo > hi THEN Zero ELSE Add(xs[lo], PlainSum(xs, lo + 1, hi))

\* the arithmetic mean of the w inputs that end at position i
ClaimedMean(xs, i, w) == Div(PlainSum(xs, i - w + 1, i), N(w))

\* C16: for a list of numbers and a positive window calculate_moving_average
\* returns a list of the same length; its first window - 1 entries are
\* undefined and every later entry is the arithmetic mean of the window of
\* inputs that ends there.
C16_MovingAverageIsWindowMean ==
    call.name = "calculate_moving_average" /\ ValidCall =>
        /\ out.raised = ""
        /\ Len(out.value) = InputLength
        /\ \A i \in 1..InputLength :
              out.value[i] = IF i < call.periods[1].v THEN NaN
                             ELSE ClaimedMean(call.lists[1].items, i, call.periods[1].v)

\* 1, 2, 3 with window 2
C16_Witness ==
    /\ call.name = "calculate_moving_average"
    /\ call.lists = <<List(<<N(1), N(2), N(3)>>)>>
    /\ call.periods = <<PyInt(2)>>
    /\ out.value = <<NaN, R(3, 2), R(5, 2)>>

(***************************************************************************)
(* RSI                                                                     *)
(***************************************************************************)
RsiReturned == call.name = "calculate_rsi" /\ ValidCall /\ out.raised = ""

\* positions whose window of `window` price changes is complete
FullWindows == (call.periods[1].v + 1)..Len(out.value)

\* the prices of the window of changes that ends at i
WindowPrices(i) == (i - call.periods[1].v)..i

\* no price in the window is below its predecessor, and one is above
OnlyGains(xs, i) ==
    /\ \A j \in WindowPrices(i) \ {i} : Le(xs[j], xs[j + 1])
    /\ \E j \in WindowPrices(i) \ {i} : Lt(xs[j], xs[j + 1])

Flat(xs) == \A j \in 1..Len(xs) : xs[j] = xs[1]

\* C17: every defined entry of calculate_rsi is a number in [0, 100]; a
\* window with gains and no loss gives exactly 100; a flat series gives
\* exactly 50 wherever the window is complete, not nan or an infinity.
C17_RsiRange ==
    RsiReturned =>
        LET xs == call.lists[1].items
        IN  /\ \A i \in 1..Len(out.value) :
                  out.value[i] # NaN =>
                      /\ IsNum(out.value[i])
                      /\ Le(Zero, out.value[i]) /\ Le(out.value[i], N(100))
            /\ \A i \in FullWindows : OnlyGains(xs, i) => out.value[i] = N(100)
            /\ (Flat(xs) => \A i \in FullWindows : out.value[i] = N(50))

\* four equal prices, window 3
C17_Witness ==
    /\ RsiReturned
    /\ call.lists = <<List(<<N(2), N(2), N(2), N(2)>>)>>
    /\ call.periods = <<PyInt(3)>>
    /\ out.value = <<NaN, NaN, NaN, N(50)>>

(***************************************************************************)
(* Stochastic oscillator                                                   *)
(***************************************************************************)
StochasticReturned ==
    call.name = "calculate_stochastic_oscillator" /\ ValidCall /\ out.raised = ""

High == call.lists[1].items
Low == call.lists[2].items
Close == call.lists[3].items
PercentK == out.value[1]

\* the positions of the trailing window that ends at i, once it is complete
Trailing(i) == (i - call.periods[1].v + 1)..i
Complete(i) == i >= call.periods[1].v

InPercentRange(v) == IsNum(v) /\ Le(Zero, v) /\ Le(v, N(100))

\* C18 as stated: for all accepted high, low and close every defined %K is
\* in [0, 100], and %K is 0 wherever high[j] = low[j] at each position j of
\* the trailing window.
C18_PercentKRange ==
    StochasticReturned =>
        /\ \A i \in 1..Len(PercentK) : PercentK[i] # NaN => InPercentRange(PercentK[i])
        /\ \A i \in 1..Len(PercentK) :
              Complete(i) /\ (\A j \in Trailing(i) : High[j] = Low[j])
                  => PercentK[i] = Zero

\* every close lies between its bar's low and high
CloseWithinBars == \A j \in 1..Len(Close) : Le(Low[j], Close[j]) /\ Le(Close[j], High[j])

\* C18 amended: when every close lies between the low and the high of its
\* bar, every defined %K is in [0, 100]; and %K is 0 wherever the highs and
\* lows of the trailing window are all one and the same price.
C18_PercentKRangeWithinBars ==
    StochasticReturned =>
        /\ CloseWithinBars =>
              \A i \in 1..Len(PercentK) : PercentK[i] # NaN => InPercentRange(PercentK[i])
        /\ \A i \in 1..Len(PercentK) :
              Complete(i) /\ (\A j, m \in Trailing(i) : High[j] = Low[m])
                  => PercentK[i] = Zero

\* two bars at one price, window 2
C18_Witness ==
    /\ StochasticReturned
    /\ High = <<N(2), N(2)>> /\ Low = <<N(2), N(2)>> /\ Close = <<N(2), N(2)>>
    /\ call.periods[1] = PyInt(2)
    /\ PercentK = <<NaN, Zero>>

(***************************************************************************)
(* On-balance volume                                                       *)
(***************************************************************************)
ObvReturned ==
    call.name = "calculate_on_balance_volume" /\ ValidCall /\ out.raised = ""

ObvClose == call.lists[1].items
ObvVolume == call.lists[2].items

NonDecreasing(xs) == \A i \in 1..(Len(xs) - 1) : Le(xs[i], xs[i + 1])

\* C19 as stated: for every accepted close and volume with close
\* non-decreasing throughout, the returned OBV is non-decreasing.
C19_ObvMonotone ==
    ObvReturned /\ NonDecreasing(ObvClose) => NonDecreasing(out.value)

\* C19 amended: for every accepted close and volume with close
\* non-decreasing throughout and no negative volume, the returned OBV is
\* non-decreasing.
C19_ObvMonotoneForVolumes ==
    /\ ObvReturned
    /\ NonDecreasing(ObvClose)
    /\ \A i \in 1..Len(ObvVolume) : Ge(ObvVolume[i], Zero)
    => NonDecreasing(out.value)

\* three rising closes with volume 2 each
C19_Witness ==
    /\ ObvReturned
    /\ ObvClose = <<N(1), N(2), N(3)>>
    /\ ObvVolume = <<N(2), N(2), N(2)>>
    /\ out.value = <<Zero, N(2), N(4)>>

\* obv[i] as the claim gives it from obv[i - 1]
ClaimedObv(i) ==
    IF Gt(ObvClose[i], ObvClose[i - 1]) THEN Add(out.value[i - 1], ObvVolume[i])
    ELSE IF Lt(ObvClose[i], ObvClose[i - 1]) THEN Sub(out.value[i - 1], ObvVolume[i])
    ELSE out.value[i - 1]

\* C20: calculate_on_balance_volume returns a list of the input's length
\* with obv[0] = 0 and, from the second entry on, the previous entry plus
\* the volume where close rose, minus the volume where it fell, unchanged
\* where it stayed; the first volume is never counted.
C20_ObvRecurrence ==
    ObvReturned =>
        /\ Len(out.value) = Len(ObvClose)
        /\ (Len(out.value) >= 1 => out.value[1] = Zero)
        /\ \A i \in 2..Len(out.value) : out.value[i] = ClaimedObv(i)

\* a rise and then a fall, with a first volume that does not show
C20_Witness ==
    /\ ObvReturned
    /\ ObvClose = <<N(2), N(3), N(1)>>
    /\ ObvVolume = <<N(2), N(2), N(2)>>
    /\ out.value = <<Zero, N(2), Zero>>

(***************************************************************************)
(* agents.trading.TradingAgent                                             *)
(*                                                                         *)
(* The agent is followed call by call: initialize, execute and             *)
(* get_portfolio_summary each run to their return or their raise, and the  *)
(* caller then takes the outcome.                                          *)
(***************************************************************************)
MaxSymbols == 2

Tickers == {"AAPL", "MSFT"}

\* the symbols a TradingConfig is built with; None becomes the empty list
SymbolLists == SeqsUpTo(Tickers, MaxSymbols)

Range(xs) == {xs[i] : i \in DOMAIN xs}

\* the dictionary initialize stores under each symbol
NewPosition == [quantity |-> N(0), avg_price |-> N(0), total_value |-> N(0)]

\* the positions when the loop over the symbols has assigned every one of them
positions_after(p, syms) ==
    [s \in DOMAIN p \cup Range(syms) |-> IF s \in Range(syms) THEN NewPosition ELSE p[s]]

\* sum(pos["total_value"] for pos in positions.values())
RECURSIVE SumTotalValue(_, _)
SumTotalValue(p, keys) ==
    IF keys = {} THEN N(0)
    ELSE LET k == CHOOSE x \in keys : TRUE
         IN  Add(p[k].total_value, SumTotalValue(p, keys \ {k}))

TradeActions == {"buy", "sell", "analyze"}

\* the first check of execute that fails, or "" when none does
execute_error_action_first(is_init, syms, action, symbol) ==
    IF ~is_init THEN "Trading agent not initialized"
    ELSE IF action \notin TradeActions THEN "Unknown action"
    ELSE IF symbol \notin Range(syms) THEN "Symbol not in configured symbols"
    ELSE ""

execute_error(is_init, syms, action, symbol) ==
    IF ~is_init THEN "Trading agent not initialized"
    ELSE IF symbol \notin Range(syms) THEN "Symbol not in configured symbols"
    ELSE IF action \notin TradeActions THEN "Unknown action"
    ELSE ""

\* what callers pass to execute
ActionArgs == TradeActions \cup {"hold"}
SymbolArgs == Tickers \cup {"TSLA"}
QuantityArgs == {None, N(10)}

\* everything that is not the TradingAgent
outside_trading ==
    <<risk_tolerance, fn, df, search_results, llm, args, ret, agent_vars, indicator_vars,
      profile_vars, pipeline_vars, repeat_vars>>

\* initialize writing the positions and raising the flag whatever the symbols
TradingInitialize_unguarded ==
    /\ trade.op = ""
    /\ research.op = ""
    /\ positions' = positions_after(positions, symbols)
    /\ trading_initialized' = TRUE
    /\ trade' = [NoTrade EXCEPT !.op = "initialize"]
    /\ UNCHANGED symbols
    /\ UNCHANGED outside_trading

TradingInitialize ==
    /\ trade.op = ""
    /\ research.op = ""
    /\ IF symbols = <<>>
       THEN /\ trade' = [NoTrade EXCEPT !.op = "initialize",
                                        !.raised = "No symbols configured for trading agent"]
            /\ UNCHANGED <<positions, trading_initialized>>
       ELSE /\ positions' = positions_after(positions, symbols)
            /\ trading_initialized' = TRUE
            /\ trade' = [NoTrade EXCEPT !.op = "initialize"]
    /\ UNCHANGED symbols
    /\ UNCHANGED outside_trading

\* execute filling the bought quantity into the position
TradingExecute_filling ==
    /\ trade.op = ""
    /\ research.op = ""
    /\ \E action \in ActionArgs, symbol \in SymbolArgs, quantity \in QuantityArgs :
          LET error == execute_error(trading_initialized, symbols, action, symbol)
              sent == [NoTrade EXCEPT !.op = "execute", !.action = action,
                                      !.symbol = symbol, !.quantity = quantity]
          IN  IF error # ""
              THEN /\ trade' = [sent EXCEPT !.raised = error]
                   /\ UNCHANGED positions
              ELSE /\ trade' = [sent EXCEPT !.value =
                           [NoValue EXCEPT !.action = action, !.symbol = symbol,
                                           !.quantity = quantity, !.status = "simulated"]]
                   /\ positions' = [positions EXCEPT ![symbol].quantity =
                                        IF action = "buy" /\ quantity # None
                                        THEN quantity ELSE @]
    /\ UNCHANGED <<symbols, trading_initialized>>
    /\ UNCHANGED outside_trading

TradingExecute ==
    /\ trade.op = ""
    /\ research.op = ""
    /\ \E action \in ActionArgs, symbol \in SymbolArgs, quantity \in QuantityArgs :
          LET error == execute_error(trading_initialized, symbols, action, symbol)
              sent == [NoTrade EXCEPT !.op = "execute", !.action = action,
                                      !.symbol = symbol, !.quantity = quantity]
          IN  IF error # ""
              THEN trade' = [sent EXCEPT !.raised = error]
              ELSE trade' = [sent EXCEPT !.value =
                          [NoValue EXCEPT !.action = action, !.symbol = symbol,
                                          !.quantity = quantity, !.status = "simulated"]]
    /\ UNCHANGED <<symbols, trading_initialized, positions>>
    /\ UNCHANGED outside_trading

GetPortfolioSummary ==
    /\ trade.op = ""
    /\ research.op = ""
    /\ trade' = [NoTrade EXCEPT !.op = "get_portfolio_summary", !.value =
                    [NoValue EXCEPT !.positions = positions,
                                    !.total_value = SumTotalValue(positions, DOMAIN positions),
                                    !.symbols_count = Len(symbols)]]
    /\ UNCHANGED <<symbols, trading_initialized, positions>>
    /\ UNCHANGED outside_trading

\* the caller has the value or the exception
TradingReturn ==
    /\ trade.op # ""
    /\ trade' = NoTrade
    /\ UNCHANGED <<symbols, trading_initialized, positions>>
    /\ UNCHANGED outside_trading

(***************************************************************************)
(* TickerResearchConfig, ProfileManager.apply_profile_if_needed and the    *)
(* initialize/execute life cycle of TickerResearchAgent                    *)
(*                                                                         *)
(* The profile file is read when a call needs it and may differ from call  *)
(* to call.  The search of execute is followed item by item in SpecAgent;  *)
(* here it either fails or returns no results.  execute(ticker) with a new *)
(* ticker builds new providers around the same configuration object, whose *)
(* fields below are all they share.                                        *)
(***************************************************************************)
\* int(x) of a non-negative number
int_of(x) == IF IsNum(x) THEN N(x.n \div x.d) ELSE x

\* TickerResearchConfig.risk_tolerance, the property
config_risk_tolerance(c) ==
    IF c._risk_tolerance # NoAttr THEN c._risk_tolerance ELSE "moderate"

\* lines 155 to 165: the profile written into the configuration
apply_profile(c, p) ==
    [c EXCEPT
        !.lookback_days =
            IF @ = None
            THEN int_of(IF p.lookback_days = Unset THEN N(21) ELSE p.lookback_days)
            ELSE @,
        !.max_results =
            IF @ = N(0) \/ @ = N(8)
            THEN int_of(IF p.max_results = Unset THEN @ ELSE p.max_results)
            ELSE @,
        !._risk_tolerance =
            IF p.risk_tolerance = NoAttr THEN "moderate" ELSE p.risk_tolerance,
        !._profile_applied = TRUE]

\* whether the call reads the profile file at all
profile_needed(c, trading_profile) == trading_profile # NoAttr /\ ~c._profile_applied

\* the AgentError the loading raises, or "" when it raises none
profile_error(p) ==
    IF ~p.file THEN "Profile file not found"
    ELSE IF ~p.yaml THEN "PyYAML not installed"
    ELSE IF ~p.known THEN "Unknown trading_profile"
    ELSE ""

\* the defaults for what is still unset
provide_defaults(c) ==
    [c EXCEPT !.lookback_days = IF @ = None THEN N(21) ELSE @,
              !._risk_tolerance = IF @ = NoAttr THEN "moderate" ELSE @]

apply_profile_if_needed(c, trading_profile, p) ==
    LET needed == profile_needed(c, trading_profile)
        error == IF needed THEN profile_error(p) ELSE ""
    IN  [raised |-> error,
         applied |-> needed /\ error = "",
         config |-> IF error # "" THEN c
                    ELSE provide_defaults(IF needed THEN apply_profile(c, p) ELSE c)]

MaxApplications == 2

\* what the constructor is given besides name and ticker
Users ==
    {u \in [lookback_days : {None, N(30)}, max_results_given : BOOLEAN,
            max_results : {N(3), N(8)}, trading_profile : {NoAttr, "daily_1"}] :
        ~u.max_results_given => u.max_results = N(8)}

\* what a call can find where the profiles are kept
Profiles ==
    [file : {TRUE}, yaml : {TRUE}, known : {TRUE},
     lookback_days : {Unset, N(10), R(21, 2)}, max_results : {Unset, N(5)},
     risk_tolerance : RiskTags \cup {NoAttr}]
    \cup {[NoProfile EXCEPT !.file = FALSE], [NoProfile EXCEPT !.yaml = FALSE], NoProfile}

ProfilesRead(c, trading_profile) ==
    IF profile_needed(c, trading_profile) THEN Profiles ELSE {NoProfile}

LifecycleDfs == {NoDf, Table(<<N(100), N(105)>>), Table(<<N(100), N(96)>>)}

\* everything that is not the research agent's flag and configuration
outside_research ==
    <<risk_tolerance, fn, search_results, llm, args, ret, backend, cfg, pc, pending,
      arrived, raw_results, seen_urls, result, indicator_vars, trading_vars,
      pipeline_vars, repeat_vars>>

count_application(n, applied) ==
    IF applied /\ n < MaxApplications THEN n + 1 ELSE n

\* initialize raising the flag before the profile is loaded
ResearchInitialize_flag_first ==
    /\ trade.op = ""
    /\ research.op = ""
    /\ \E p \in ProfilesRead(config, user.trading_profile) :
          LET r == apply_profile_if_needed(config, user.trading_profile, p)
          IN  /\ config' = r.config
              /\ applications' = count_application(applications, r.applied)
              /\ initialized' = TRUE
              /\ research' = [NoResearch EXCEPT !.op = "initialize", !.raised = r.raised,
                                                !.profile = p]
    /\ UNCHANGED <<user, df>>
    /\ UNCHANGED outside_research

ResearchInitialize ==
    /\ trade.op = ""
    /\ research.op = ""
    /\ \E p \in ProfilesRead(config, user.trading_profile) :
          LET r == apply_profile_if_needed(config, user.trading_profile, p)
          IN  /\ config' = r.config
              /\ applications' = count_application(applications, r.applied)
              /\ initialized' = IF r.raised = "" THEN TRUE ELSE initialized
              /\ research' = [NoResearch EXCEPT !.op = "initialize", !.raised = r.raised,
                                                !.profile = p]
    /\ UNCHANGED <<user, df>>
    /\ UNCHANGED outside_research

\* the outcome of execute once its guard has passed
research_outcome(r, p, found, d) ==
    [NoResearch EXCEPT
        !.op = "execute",
        !.profile = p,
        !.raised = IF r.raised # "" THEN r.raised
                   ELSE IF ~found THEN "search failed" ELSE "",
        !.result = IF r.raised = "" /\ found
                   THEN execute_result(d, <<>>, NoLlm, config_risk_tolerance(r.config),
                                       DefaultCfg)
                   ELSE NoResult]

ResearchExecute ==
    /\ trade.op = ""
    /\ research.op = ""
    /\ IF ~initialized
       THEN /\ research' = [NoResearch EXCEPT !.op = "execute",
                                !.raised = "TickerResearchAgent not initialized"]
            /\ UNCHANGED <<config, applications, df>>
       ELSE \E p \in ProfilesRead(config, user.trading_profile), found \in BOOLEAN,
               d \in LifecycleDfs :
               LET r == apply_profile_if_needed(config, user.trading_profile, p)
               IN  /\ config' = r.config
                   /\ applications' = count_application(applications, r.applied)
                   /\ df' = IF r.raised = "" THEN d ELSE NoDf
                   /\ research' = research_outcome(r, p, found, d)
    /\ UNCHANGED <<user, initialized>>
    /\ UNCHANGED outside_research

\* the caller has the result or the exception
ResearchReturn ==
    /\ research.op # ""
    /\ research' = NoResearch
    /\ df' = NoDf
    /\ UNCHANGED <<user, config, applications, initialized>>
    /\ UNCHANGED outside_research

\* a TradingAgent built on some symbol list beside a research agent built on
\* defaults, or a research agent built on some configuration beside a
\* TradingAgent without symbols
InitLifecycle ==
    /\ risk_tolerance = "moderate"
    /\ Idle
    /\ AgentIdle
    /\ IndicatorIdle
    /\ PipelineIdle
    /\ RepeatIdle
    /\ trading_initialized = FALSE
    /\ positions = EmptyDict
    /\ trade = NoTrade
    /\ applications = 0
    /\ research = NoResearch
    /\ \/ symbols \in SymbolLists /\ user = NoUser
       \/ symbols = <<>> /\ user \in Users
    /\ config = constructed(user)

NextLifecycle ==
    \/ TradingInitialize
    \/ TradingExecute
    \/ GetPortfolioSummary
    \/ TradingReturn
    \/ ResearchInitialize
    \/ ResearchExecute
    \/ ResearchReturn

SpecLifecycle == InitLifecycle /\ [][NextLifecycle]_vars

(***************************************************************************)
(* The initialized flag                                                    *)
(***************************************************************************)
TradingCalled(op) == trade.op = "" /\ trade'.op = op
ResearchCalled(op) == research.op = "" /\ research'.op = op

\* the flag of either agent rises only in an initialize that does not raise
RisesOnlyInInitialize ==
    /\ (~trading_initialized /\ trading_initialized') =>
           (TradingCalled("initialize") /\ trade'.raised = "")
    /\ (~initialized /\ initialized') =>
           (ResearchCalled("initialize") /\ research'.raised = "")

\* an initialize that raises leaves the flag as it was
FailedInitializeKeepsFlag ==
    /\ (TradingCalled("initialize") /\ trade'.raised # "") =>
           trading_initialized' = trading_initialized
    /\ (ResearchCalled("initialize") /\ research'.raised # "") =>
           initialized' = initialized

ExecuteBeforeInitializeRaises ==
    /\ (TradingCalled("execute") /\ ~trading_initialized) =>
           trade'.raised = "Trading agent not initialized"
    /\ (ResearchCalled("execute") /\ ~initialized) =>
           research'.raised = "TickerResearchAgent not initialized"

NeverReverts ==
    /\ trading_initialized => trading_initialized'
    /\ initialized => initialized'

\* C21: for TradingAgent and TickerResearchAgent the initialized flag is false
\* after construction, becomes true only in an initialize call that does not
\* raise, every execute called while it is false raises AgentError, and once
\* true it stays true under every sequence of initialize and execute calls.
C21_InitializedFlag ==
    /\ ~trading_initialized /\ ~initialized
    /\ [][/\ RisesOnlyInInitialize
          /\ FailedInitializeKeepsFlag
          /\ ExecuteBeforeInitializeRaises
          /\ NeverReverts]_vars

\* both agents are initialized and an execute of the TradingAgent has raised
C21_Witness ==
    /\ trading_initialized
    /\ initialized
    /\ trade.op = "execute"
    /\ trade.raised # ""

(***************************************************************************)
(* TradingAgent.initialize                                                 *)
(***************************************************************************)
ZeroPosition == [quantity |-> N(0), avg_price |-> N(0), total_value |-> N(0)]

InitializeRan == trade.op = "initialize"

\* C22: TradingAgent.initialize with an empty symbol list raises AgentError
\* and leaves the agent uninitialized with empty positions, so that every
\* later execute raises AgentError; with a non-empty list it does not raise
\* and the positions hold exactly the configured symbols, each with quantity
\* 0, avg_price 0.0 and total_value 0.0.
C22_InitializeBySymbols ==
    /\ (InitializeRan /\ symbols = <<>>) =>
           /\ trade.raised = "No symbols configured for trading agent"
           /\ ~trading_initialized
           /\ positions = EmptyDict
    /\ (trade.op = "execute" /\ symbols = <<>>) => trade.raised # ""
    /\ (InitializeRan /\ symbols # <<>>) =>
           /\ trade.raised = ""
           /\ trading_initialized
           /\ DOMAIN positions = Range(symbols)
           /\ \A s \in DOMAIN positions : positions[s] = ZeroPosition

\* initialize has run on two different symbols
C22_Witness ==
    /\ InitializeRan
    /\ Len(symbols) = 2
    /\ symbols[1] # symbols[2]
    /\ Cardinality(DOMAIN positions) = 2

(***************************************************************************)
(* TradingAgent.execute                                                    *)
(***************************************************************************)
ExecuteRanInitialized == trade.op = "execute" /\ trading_initialized

Configured(symbol) == \E i \in 1..Len(symbols) : symbols[i] = symbol

KnownAction(action) == action = "buy" \/ action = "sell" \/ action = "analyze"

\* C23: on an initialized TradingAgent execute(action, symbol, quantity)
\* raises AgentError for a symbol that is not configured whatever the action,
\* raises AgentError for a configured symbol with an action other than buy,
\* sell, analyze, and otherwise returns a record with the action, symbol and
\* quantity it was given and status "simulated".
C23_ExecuteChecks ==
    ExecuteRanInitialized =>
        /\ ~Configured(trade.symbol) =>
               trade.raised = "Symbol not in configured symbols"
        /\ (Configured(trade.symbol) /\ ~KnownAction(trade.action)) =>
               trade.raised = "Unknown action"
        /\ (Configured(trade.symbol) /\ KnownAction(trade.action)) =>
               /\ trade.raised = ""
               /\ trade.value.action = trade.action
               /\ trade.value.symbol = trade.symbol
               /\ trade.value.quantity = trade.quantity
               /\ trade.value.status = "simulated"

\* neither the symbol nor the action is acceptable, and the symbol is reported
C23_Witness ==
    /\ ExecuteRanInitialized
    /\ ~Configured(trade.symbol)
    /\ ~KnownAction(trade.action)
    /\ trade.raised = "Symbol not in configured symbols"

(***************************************************************************)
(* ProfileManager.apply_profile_if_needed                                  *)
(***************************************************************************)
\* the call in progress has run apply_profile_if_needed to its end
ProfileStepDone ==
    /\ research.op # ""
    /\ research.raised \in {"", "search failed"}

\* C24: apply_profile_if_needed never replaces a lookback_days or max_results
\* the user passed to the constructor; the profile is written into the
\* configuration at most once over any sequence of initialize and execute
\* calls; and after the call lookback_days is set, to 21 when neither the user
\* nor the profile gives one.
C24_ProfileKeepsUserValues ==
    /\ user.lookback_days # None => config.lookback_days = user.lookback_days
    /\ user.max_results_given => config.max_results = user.max_results
    /\ applications <= 1
    /\ ProfileStepDone =>
           /\ config.lookback_days # None
           /\ (user.lookback_days = None /\ research.profile.lookback_days = Unset
               /\ (research.profile.known \/ user.trading_profile = NoAttr)) =>
                  config.lookback_days = N(21)

(***************************************************************************)
(* The positions of an initialized TradingAgent                            *)
(***************************************************************************)
SummaryRan == trade.op = "get_portfolio_summary"

AllFlat ==
    \A s \in DOMAIN positions :
        positions[s].quantity = N(0) /\ positions[s].total_value = N(0)

\* C30: once TradingAgent.initialize has succeeded, whatever execute and
\* get_portfolio_summary calls follow, successful or failing, the keys of
\* positions are exactly the configured symbols and every quantity and
\* total_value is 0, and get_portfolio_summary reports total_value 0.0 and
\* symbols_count equal to the length of the configured symbol list.
C30_PositionsUntouched ==
    trading_initialized =>
        /\ DOMAIN positions = Range(symbols)
        /\ AllFlat
        /\ SummaryRan =>
               /\ trade.value.total_value = N(0)
               /\ trade.value.symbols_count = Len(symbols)
               /\ trade.value.positions = positions

\* a buy of 10 has been simulated and the position bought is still 0
C30_Witness ==
    /\ trading_initialized
    /\ trade.op = "execute"
    /\ trade.raised = ""
    /\ trade.action = "buy"
    /\ trade.quantity = N(10)
    /\ positions[trade.symbol].quantity = N(0)

(***************************************************************************)
(* A risk tolerance outside the three names                                *)
(***************************************************************************)
\* execute has returned a result
ResearchReturned == research.op = "execute" /\ research.raised = ""

\* the tag the configuration answers, lower-cased, is none of the three names
UnnamedTag ==
    LET tag == Lower(config_risk_tolerance(config))
    IN  tag # "conservative" /\ tag # "moderate" /\ tag # "aggressive"

\* the composite with the multiplier 1.0
ModerateComposite ==
    composite_score(technical_score(df), momentum_score(df), research.result.sentiment, One)

\* the recommendation the thresholds 0.55 and 0.45 give
ModerateRecommendation(composite) ==
    IF Ge(composite, Dec(55)) THEN "BUY"
    ELSE IF Le(composite, Dec(45)) THEN "SELL"
    ELSE "HOLD"

\* C29: under a risk tolerance that is, case-insensitively, none of
\* conservative, moderate, aggressive, and under a configuration to which no
\* profile was applied, the composite is the one the multiplier 1.0 gives and
\* the recommendation the one the thresholds buy 0.55 and sell 0.45 give.
C29_UnknownRiskIsModerate ==
    (ResearchReturned /\ (UnnamedTag \/ ~config._profile_applied)) =>
        /\ research.result.composite = ModerateComposite
        /\ research.result.recommendation = ModerateRecommendation(ModerateComposite)

\* the profile says "balanced" and the composite 0.5 is held, where the
\* aggressive thresholds would buy
C29_Witness ==
    /\ ResearchReturned
    /\ config._profile_applied
    /\ config._risk_tolerance = "balanced"
    /\ research.result.composite = Half
    /\ research.result.recommendation = "HOLD"

(***************************************************************************)
(* The pipeline under the three risk tolerances                            *)
(*                                                                         *)
(* Three providers, configured conservative, moderate and aggressive, are  *)
(* given the same technical, momentum and sentiment scores; each applies   *)
(* its multiplier in calculate_all_scores and its thresholds in            *)
(* generate_trading_signal.                                                *)
(***************************************************************************)
\* generate_trading_signal on the composite calculate_all_scores returned
pipeline_signal(composite, technical, config_risk) ==
    [composite |-> composite,
     signal |-> generate_trading_signal(config_risk, composite, technical).signal,
     confidence |-> generate_trading_signal(config_risk, composite, technical).confidence]

\* calculate_all_scores from its three sub-scores on, then generate_trading_signal
pipeline(technical, momentum, sentiment, config_risk) ==
    pipeline_signal(
        composite_score(technical, momentum, sentiment,
                        risk_multipliers(Lower(config_risk))),
        technical, config_risk)

\* sub-scores 0, 1/MaxStep, ..., 1
MaxStep == 20
SubscoreGrid == {R(i, MaxStep) : i \in 0..MaxStep}

outside_pipeline ==
    <<risk_tolerance, fn, df, search_results, llm, args, ret, agent_vars, indicator_vars,
      trading_vars, profile_vars, repeat_vars>>

Pipeline ==
    /\ subscores = NoSubscores
    /\ \E t \in SubscoreGrid, m \in SubscoreGrid, s \in SubscoreGrid :
          /\ subscores' = [technical |-> t, momentum |-> m, sentiment |-> s]
          /\ signals' = [conservative |-> pipeline(t, m, s, "conservative"),
                         moderate |-> pipeline(t, m, s, "moderate"),
                         aggressive |-> pipeline(t, m, s, "aggressive")]
    /\ UNCHANGED outside_pipeline

PipelineReturn ==
    /\ subscores # NoSubscores
    /\ subscores' = NoSubscores
    /\ signals' = NoSignals
    /\ UNCHANGED outside_pipeline

InitPipeline ==
    /\ risk_tolerance = "moderate"
    /\ Idle
    /\ AgentIdle
    /\ IndicatorIdle
    /\ RestIdle

NextPipeline ==
    \/ Pipeline
    \/ PipelineReturn

SpecPipeline == InitPipeline /\ [][NextPipeline]_vars

PipelineRan == subscores # NoSubscores

AllNeutral ==
    subscores = [technical |-> Half, momentum |-> Half, sentiment |-> Half]

C27_MonotoneInRisk ==
    PipelineRan =>
        /\ signals.conservative.signal = "BUY" => signals.moderate.signal = "BUY"
        /\ signals.moderate.signal = "BUY" => signals.aggressive.signal = "BUY"
        /\ signals.aggressive.signal = "SELL" => signals.moderate.signal = "SELL"
        /\ signals.moderate.signal = "SELL" => signals.conservative.signal = "SELL"

\* sold under conservative and moderate, held under aggressive
C27_Witness ==
    /\ PipelineRan
    /\ signals.conservative.signal = "SELL"
    /\ signals.moderate.signal = "SELL"
    /\ signals.aggressive.signal = "HOLD"

(***************************************************************************)
(* The confidence of a HOLD                                                *)
(***************************************************************************)
\* C28: whenever generate_trading_signal returns HOLD, under any risk
\* tolerance and any technical score or none, the confidence is strictly
\* below 0.24, and strictly below 0.12 under the moderate thresholds.
C28_HoldConfidence ==
    (SignalCall /\ ret.signal = "HOLD") =>
        /\ Lt(ret.confidence, Dec(24))
        /\ Lower(risk_tolerance) \notin {"conservative", "aggressive"} =>
               Lt(ret.confidence, Dec(12))

\* a HOLD under conservative whose boosted confidence is above 0.2
C28_Witness ==
    /\ SignalCall
    /\ ret.signal = "HOLD"
    /\ risk_tolerance = "conservative"
    /\ Gt(ret.confidence, Dec(20))

(***************************************************************************)
(* Calling a function twice                                                *)
(*                                                                         *)
(* A caller calls one indicator, score or signal function after another    *)
(* and keeps, beside the call in progress, the call made before it: the    *)
(* arguments as passed, the result, and the argument lists and the         *)
(* configured risk tolerance as they stand when the call has returned.     *)
(* The analyzer functions copy their lists into pandas Series and the      *)
(* ScoreProvider holds only its config and logger, so a call writes to     *)
(* neither.                                                                *)
(***************************************************************************)
CallOf(name, lists, periods) ==
    [NoCall EXCEPT !.name = name, !.lists = lists, !.periods = periods]

\* the analyzer function a call names, applied to the call's arguments
indicator_out(c) ==
    CASE c.name = "calculate_moving_average" ->
            calculate_moving_average(c.lists[1], c.periods[1])
      [] c.name = "calculate_exponential_moving_average" ->
            calculate_exponential_moving_average(c.lists[1], c.periods[1])
      [] c.name = "calculate_rsi" -> calculate_rsi(c.lists[1], c.periods[1])
      [] c.name = "calculate_macd" ->
            calculate_macd(c.lists[1], c.periods[1], c.periods[2], c.periods[3])
      [] c.name = "calculate_bollinger_bands" ->
            calculate_bollinger_bands(c.lists[1], c.periods[1], c.num_std_dev)
      [] c.name = "calculate_stochastic_oscillator" ->
            calculate_stochastic_oscillator(c.lists[1], c.lists[2], c.lists[3],
                                            c.periods[1], c.periods[2])
      [] c.name = "calculate_average_true_range" ->
            calculate_average_true_range(c.lists[1], c.lists[2], c.lists[3], c.periods[1])
      [] c.name = "calculate_on_balance_volume" ->
            calculate_on_balance_volume(c.lists[1], c.lists[2])

all_scores_ret(r) ==
    [NoRet EXCEPT !.technical = r.technical, !.momentum = r.momentum,
                  !.sentiment = r.sentiment, !.composite = r.composite]

signal_ret(r) == [NoRet EXCEPT !.signal = r.signal, !.confidence = r.confidence]

sentiment_ret(r) == [NoRet EXCEPT !.sentiment = r.value, !.raised = r.raised]

\* the ScoreProvider method a probe names, applied to the probe's arguments
score_ret(p) ==
    CASE p.fn = "technical_score" -> [NoRet EXCEPT !.technical = technical_score(p.df)]
      [] p.fn = "_rsi_score_normalized" ->
            [NoRet EXCEPT !.rsi_score = _rsi_score_normalized(p.args.rsi)]
      [] p.fn = "momentum_score" -> [NoRet EXCEPT !.momentum = momentum_score(p.df)]
      [] p.fn = "sentiment_score" -> sentiment_ret(sentiment_score(p.search_results, p.llm))
      [] p.fn = "composite_score" ->
            [NoRet EXCEPT !.composite =
                composite_score(p.args.technical, p.args.momentum, p.args.sentiment,
                                p.args.risk_adjustment)]
      [] p.fn = "generate_trading_signal" ->
            signal_ret(generate_trading_signal(p.risk, p.args.composite, p.args.technical))
      [] p.fn = "calculate_all_scores" ->
            all_scores_ret(calculate_all_scores(p.df, p.search_results, p.llm, p.risk))

\* the calls the caller chooses from
RepeatData == {NotAList, List(<<N(1), N(2), N(3)>>), List(<<N(3), N(1), N(2)>>)}
RepeatBars == {<<List(<<N(2), N(3)>>), List(<<N(1), N(1)>>), List(<<N(1), N(3)>>)>>,
               <<List(<<N(3), N(2)>>), List(<<N(1), N(1)>>), List(<<N(2), N(1)>>)>>}
RepeatPairs == {<<List(<<N(1), N(2), N(1)>>), List(<<N(2), N(2), N(2)>>)>>,
                <<List(<<N(2), N(1), N(3)>>), List(<<N(2), N(0), N(2)>>)>>}

RepeatCalls ==
    {CallOf(name, <<data>>, <<PyInt(2)>>) :
        name \in {"calculate_moving_average", "calculate_exponential_moving_average",
                  "calculate_rsi"},
        data \in RepeatData}
    \cup {CallOf("calculate_macd", <<data>>, <<PyInt(1), PyInt(2), PyInt(2)>>) :
            data \in RepeatData}
    \cup {[CallOf("calculate_bollinger_bands", <<data>>, <<PyInt(2)>>)
              EXCEPT !.num_std_dev = PyFloat(2)] : data \in RepeatData}
    \cup {CallOf("calculate_stochastic_oscillator", t, <<PyInt(2), PyInt(2)>>) :
            t \in RepeatBars}
    \cup {CallOf("calculate_average_true_range", t, <<PyInt(2)>>) : t \in RepeatBars}
    \cup {CallOf("calculate_on_balance_volume", q, <<>>) : q \in RepeatPairs}

RepeatScores == {Dec(30), Half, Dec(70)}
RepeatResults == {<<>>, <<[title |-> TRUE, snippet |-> TRUE]>>}
RepeatRisks == {"conservative", "moderate"}

RepeatProbes ==
    {[NoProbe EXCEPT !.fn = f, !.df = d] :
        f \in {"technical_score", "momentum_score"}, d \in AgentDfs}
    \cup {[NoProbe EXCEPT !.fn = "_rsi_score_normalized", !.args = [NoArgs EXCEPT !.rsi = r]] :
            r \in {N(20), N(50), N(80)}}
    \cup {[NoProbe EXCEPT !.fn = "sentiment_score", !.search_results = r, !.llm = l] :
            r \in RepeatResults, l \in AgentLlms}
    \cup {[NoProbe EXCEPT !.fn = "composite_score",
                          !.args = [NoArgs EXCEPT !.technical = t, !.momentum = Half,
                                                  !.sentiment = x,
                                                  !.risk_adjustment = Dec(85)]] :
            t \in RepeatScores, x \in RepeatScores}
    \cup {[NoProbe EXCEPT !.fn = "generate_trading_signal", !.risk = k,
                          !.args = [NoArgs EXCEPT !.composite = c, !.technical = Half]] :
            c \in RepeatScores, k \in RepeatRisks}
    \cup {[NoProbe EXCEPT !.fn = "calculate_all_scores", !.df = d, !.search_results = r,
                          !.llm = l, !.risk = k] :
            d \in AgentDfs, r \in RepeatResults, l \in AgentLlms, k \in RepeatRisks}

outside_repeat ==
    <<risk_tolerance, fn, df, search_results, llm, args, ret, agent_vars, indicator_vars,
      trading_vars, profile_vars, pipeline_vars>>

\* calculate_on_balance_volume continuing from the total the call before it
\* ended on
carried(r, c, before) ==
    IF /\ c.name = "calculate_on_balance_volume"
       /\ before.fn = c.name
       /\ r.raised = ""
       /\ before.out.raised = ""
       /\ Len(before.out.value) > 0
    THEN Result([i \in 1..Len(r.value) |->
                    Add(r.value[i], before.out.value[Len(before.out.value)])])
    ELSE r

\* the analyzer with a running total kept between calls
RepeatIndicator_carrying ==
    /\ probe.fn = ""
    /\ \E c \in RepeatCalls :
          probe' = [NoProbe EXCEPT !.fn = c.name, !.call = c,
                                   !.out = carried(indicator_out(c), c, earlier),
                                   !.call_after = c]
    /\ UNCHANGED earlier
    /\ UNCHANGED outside_repeat

RepeatIndicator ==
    /\ probe.fn = ""
    /\ \E c \in RepeatCalls :
          probe' = [NoProbe EXCEPT !.fn = c.name, !.call = c, !.out = indicator_out(c),
                                   !.call_after = c]
    /\ UNCHANGED earlier
    /\ UNCHANGED outside_repeat

RepeatScore ==
    /\ probe.fn = ""
    /\ \E p \in RepeatProbes :
          probe' = [p EXCEPT !.ret = score_ret(p), !.risk_after = p.risk]
    /\ UNCHANGED earlier
    /\ UNCHANGED outside_repeat

\* the caller keeps the finished call as the one made before
RepeatReturn ==
    /\ probe.fn # ""
    /\ earlier' = probe
    /\ probe' = NoProbe
    /\ UNCHANGED outside_repeat

InitRepeat ==
    /\ risk_tolerance = "moderate"
    /\ Idle
    /\ AgentIdle
    /\ IndicatorIdle
    /\ RestIdle

NextRepeat ==
    \/ RepeatIndicator
    \/ RepeatScore
    \/ RepeatReturn

SpecRepeat == InitRepeat /\ [][NextRepeat]_vars

\* the call in progress was given what the call before it was given
SameInput ==
    /\ probe.fn # ""
    /\ probe.fn = earlier.fn
    /\ probe.call = earlier.call
    /\ probe.args = earlier.args
    /\ probe.df = earlier.df
    /\ probe.search_results = earlier.search_results
    /\ probe.llm = earlier.llm
    /\ probe.risk = earlier.risk

====
